---- MODULE Spec2Model ----
(***************************************************************************)
(* Verification model of scripts/export_site_data.py: the Result Resolver  *)
(* (_matchup_result), the records of export_league_summary, the season     *)
(* metrics, the bracket builder, the placement inference engine and the    *)
(* per-league loop of export_league_overview; and of scripts/sync_all.py:  *)
(* the league loop of main with its progress file, and fetch_xml.          *)
(*                                                                         *)
(* Encoding of Python values:                                              *)
(*   - a nullable number (points, rank, ...) is <<>> for None and <<n>>    *)
(*     for the number n;                                                   *)
(*   - a nullable string (team key, win_status) is NULL or the string;     *)
(*   - a dict keyed by team is a function whose DOMAIN is the key set;     *)
(*   - a Python set is a set; the order in which a set of team keys is     *)
(*     iterated is hash_order restricted to the set.                       *)
(***************************************************************************)
EXTENDS Integers, Sequences, FiniteSets, TLC

VARIABLES
    teams_arg,              \* argument list of one _matchup_result call
    result,                 \* value returned by that call
    called,                 \* whether the call has returned
    leagues_done,           \* league_seasons entries the loop has finished
    league,                 \* record sets of the league-season in progress
    hash_order,             \* iteration order of sets of team keys in this pass
    pc,                     \* position inside export_league_overview
    playoff_places_rel,     \* compute_bracket_places(playoff_rounds, ...)[0]
    consolation_places_rel, \* compute_bracket_places(consolation_rounds, ...)[0]
    final_places,           \* dict team_key -> final place
    next_place,             \* local next_place of lines 648-658
    overview_rows,          \* league keys of the rows appended so far
    written,                \* output_path.write_text has run
    cursor,                 \* 1-based position of the loop in progress
    records,                \* records of export_league_summary
    week_team_points,       \* dict week -> list of (team_key, points)
    points_by_team,         \* dict team_key -> summed points
    total_points,           \* sum of every recorded score
    margins,                \* list of absolute point margins
    median_wins,            \* dict team_key -> median wins
    record_map,             \* dict team_key -> running wins, losses, ties
    total_games,            \* decisive games counted by the upset loop
    upset_games,            \* games won by the team with the lower win pct
    playoff_bracket,        \* rounds of the row's playoff_bracket
    consolation_bracket,    \* rounds of the row's consolation_bracket
    gap_value,              \* largest median wins - actual wins, <<>> for None
    gap_team_key,           \* team of gap_value, NULL for None
    points_to_date,         \* dict team_key -> points of the weeks visited
    playoff_weeks_in_spot,  \* dict team_key -> weeks in a playoff spot
    playoff_bubble,         \* the row's playoff_bubble
    sync_pc,                \* position inside sync_all.main
    runs,                   \* runs of sync_all.main started so far
    args,                   \* parsed command line of the run
    sorted_leagues,         \* the discovered leagues after the sort
    leagues,                \* leagues the loop of main has still to visit
    phase,                  \* 1-based position inside sync_league
    fetch_pc,               \* position inside fetch_xml
    response,               \* status_code of the response in hand
    fetch_result,           \* how the last fetch_xml call ended
    counter,                \* ctx.counter
    raw_files,              \* files save_raw_xml wrote for this SyncContext
    raw_responses,          \* raw_responses rows inserted by this SyncContext
    progress,               \* last_league_key of sync_progress.json
    with_data,              \* leagues that league_has_data finds
    synced,                 \* leagues sync_league was called for in this run
    completed               \* leagues for which sync_league has returned

resolver_vars == <<teams_arg, result, called>>

run_vars == <<leagues_done, league, hash_order, pc, playoff_places_rel,
              consolation_places_rel, final_places, next_place,
              overview_rows, written>>

metric_vars == <<gap_value, gap_team_key, points_to_date,
                 playoff_weeks_in_spot, playoff_bubble>>

season_vars == <<cursor, records, week_team_points, points_by_team,
                 total_points, margins, median_wins, record_map, total_games,
                 upset_games, playoff_bracket, consolation_bracket,
                 metric_vars>>

sync_vars == <<sync_pc, runs, args, sorted_leagues, leagues, phase, fetch_pc,
               response, fetch_result, counter, raw_files, raw_responses,
               progress, with_data, synced, completed>>

vars == <<resolver_vars, run_vars, season_vars, sync_vars>>

----------------------------------------------------------------------------
(* Bounds *)

\* points values are 0 .. MaxPoints
MaxPoints == 2

----------------------------------------------------------------------------
(* Python values *)

NULL == "NULL"

NoneNum == <<>>

Some(n) == <<n>>

IsNone(v) == v = <<>>

\* a raw value of a REAL column: SQL NULL, a number, or non-numeric text
RawNull == [t |-> "null", v |-> 0]

RawReal(n) == [t |-> "real", v |-> n]

RawText == [t |-> "text", v |-> 0]

RawPoints == {RawNull, RawText} \cup {RawReal(n) : n \in 0 .. MaxPoints}

\* float(value), None on TypeError (NULL) or ValueError (non-numeric text)
_to_float(value) ==
    IF value.t = "real" THEN Some(value.v) ELSE NoneNum

\* a variant of lower that leaves the case as it is
lower_unfolded(s) == s

\* str.lower() on the win_status tokens
lower(s) ==
    CASE s = "WIN" -> "win"
      [] s = "Win" -> "win"
      [] s = "TIE" -> "tie"
      [] s = "Tie" -> "tie"
      [] s = "LOSS" -> "loss"
      [] OTHER -> s

\* (x or "")
OrEmpty(s) == IF s = NULL THEN "" ELSE s

StatusTokens == {NULL, "", "win", "WIN", "tie", "Tie", "loss"}

----------------------------------------------------------------------------
(* _matchup_result *)

NoResult == [kind |-> "None", winner |-> NULL, loser |-> NULL]

TieResult == [kind |-> "tie", winner |-> NULL, loser |-> NULL]

Decided(w, l) == [kind |-> "decided", winner |-> w, loser |-> l]

\* a variant that compares the points before it reads the declared status
_matchup_result_points_first(teams) ==
    IF Len(teams) # 2 THEN NoResult
    ELSE
        LET a == teams[1]
            b == teams[2]
            status_a == lower(OrEmpty(a.win_status))
            status_b == lower(OrEmpty(b.win_status))
        IN  IF status_a = "tie" \/ status_b = "tie" THEN TieResult
            ELSE IF ~IsNone(a.points) /\ ~IsNone(b.points)
                    /\ a.points[1] # b.points[1]
                 THEN IF a.points[1] > b.points[1]
                      THEN Decided(a.team_key, b.team_key)
                      ELSE Decided(b.team_key, a.team_key)
            ELSE IF status_a = "win" THEN Decided(a.team_key, b.team_key)
            ELSE IF status_b = "win" THEN Decided(b.team_key, a.team_key)
            ELSE IF IsNone(a.points) \/ IsNone(b.points) THEN NoResult
            ELSE TieResult

\* a variant without the equality branch: points_a >= points_b wins for a
_matchup_result_no_equality(teams) ==
    IF Len(teams) # 2 THEN NoResult
    ELSE
        LET a == teams[1]
            b == teams[2]
            status_a == lower(OrEmpty(a.win_status))
            status_b == lower(OrEmpty(b.win_status))
        IN  IF status_a = "tie" \/ status_b = "tie" THEN TieResult
            ELSE IF status_a = "win" THEN Decided(a.team_key, b.team_key)
            ELSE IF status_b = "win" THEN Decided(b.team_key, a.team_key)
            ELSE IF IsNone(a.points) \/ IsNone(b.points) THEN NoResult
            ELSE IF a.points[1] >= b.points[1]
                 THEN Decided(a.team_key, b.team_key)
                 ELSE Decided(b.team_key, a.team_key)

_matchup_result(teams) ==
    IF Len(teams) # 2 THEN NoResult
    ELSE
        LET a == teams[1]
            b == teams[2]
            status_a == lower(OrEmpty(a.win_status))
            status_b == lower(OrEmpty(b.win_status))
            points_a == a.points
            points_b == b.points
        IN  IF status_a = "tie" \/ status_b = "tie" THEN TieResult
            ELSE IF status_a = "win" THEN Decided(a.team_key, b.team_key)
            ELSE IF status_b = "win" THEN Decided(b.team_key, a.team_key)
            ELSE IF IsNone(points_a) \/ IsNone(points_b) THEN NoResult
            ELSE IF points_a[1] = points_b[1] THEN TieResult
            ELSE IF points_a[1] > points_b[1]
                 THEN Decided(a.team_key, b.team_key)
                 ELSE Decided(b.team_key, a.team_key)

\* one matchup_teams row as loaded at export_league_overview lines 255-264
LoadEntry(team_key, raw_points, win_status) ==
    [team_key |-> team_key, points |-> _to_float(raw_points),
     win_status |-> win_status]

----------------------------------------------------------------------------
(* Sequences and dicts *)

TeamKeys == {"A", "B", "C", "D", "E"}

\* list(S) for a Python set S of team keys, iterated in the order `order`
SetToList(S, order) == SelectSeq(order, LAMBDA t : t \in S)

Range(s) == {s[i] : i \in 1 .. Len(s)}

\* max(d.values(), default=0)
MaxValue(d) ==
    IF DOMAIN d = {} THEN 0
    ELSE CHOOSE m \in {d[k] : k \in DOMAIN d} : \A k \in DOMAIN d : d[k] <= m

\* list.sort(key=...) : stable, ascending by key[x]
RECURSIVE StableSort(_, _)
StableSort(s, key) ==
    IF s = <<>> THEN <<>>
    ELSE LET h == Head(s)
             rest == StableSort(Tail(s), key)
         IN  SelectSeq(rest, LAMBDA e : key[e] < key[h])
             \o <<h>>
             \o SelectSeq(rest, LAMBDA e : key[e] >= key[h])

\* the matchups of a set in ascending matchup_id (ids are unique in a week)
RECURSIVE SortByMatchupId(_)
SortByMatchupId(S) ==
    IF S = {} THEN <<>>
    ELSE LET m == CHOOSE x \in S : \A y \in S : x.matchup_id <= y.matchup_id
         IN  <<m>> \o SortByMatchupId(S \ {m})

\* sorted(W) for a set of week numbers
RECURSIVE SortedWeeks(_)
SortedWeeks(W) ==
    IF W = {} THEN <<>>
    ELSE LET w == CHOOSE x \in W : \A y \in W : x <= y
         IN  <<w>> \o SortedWeeks(W \ {w})

----------------------------------------------------------------------------
(* League-season record sets, as grouped at lines 220-292 *)

\* a row of the matchups table; present = FALSE when the table has no row
\* for the (week, matchup_id) of the matchup_teams rows
NoMeta ==
    [present |-> FALSE, is_playoffs |-> 0, is_consolation |-> 0,
     winner_team_key |-> NULL]

Meta(p, c, w) ==
    [present |-> TRUE, is_playoffs |-> p, is_consolation |-> c,
     winner_team_key |-> w]

\* one entry of matchup_map with its matchup_meta row
Matchup(week, id, teams, meta) ==
    [week |-> week, matchup_id |-> id, teams |-> teams, meta |-> meta]

\* team_keys = set(team_info.keys()) or set(standings_rows.keys())
team_keys(lg) ==
    IF lg.team_info # {} THEN lg.team_info ELSE DOMAIN lg.standings_rows

\* standings_rank = {team_key: row.get("rank") or 999}
RankSentinel == 999

standings_rank(lg) ==
    [t \in DOMAIN lg.standings_rows |->
        LET r == lg.standings_rows[t].rank
        IN  IF IsNone(r) \/ r = Some(0) THEN RankSentinel ELSE r[1]]

\* standings_rank.get(team, 999) as a sort key over every team key
RankKey(lg) ==
    [t \in TeamKeys |->
        IF t \in DOMAIN lg.standings_rows THEN standings_rank(lg)[t]
        ELSE RankSentinel]

----------------------------------------------------------------------------
(* Bracket builder *)

matchup_winner(teams, winner_key) ==
    IF winner_key # NULL /\ winner_key # "" THEN winner_key
    ELSE IF Len(teams) = 2 THEN
        LET points_a == teams[1].points
            points_b == teams[2].points
        IN  IF IsNone(points_a) \/ IsNone(points_b) THEN NULL
            ELSE IF points_a[1] = points_b[1] THEN NULL
            ELSE IF points_a[1] > points_b[1] THEN teams[1].team_key
            ELSE teams[2].team_key
    ELSE NULL

\* a variant of the bracket entry whose loser is the first listed team
MatchupEntry_first_loser(m) ==
    LET winner_key == matchup_winner(m.teams, m.meta.winner_team_key)
        payload ==
            [i \in 1 .. Len(m.teams) |->
                [team_key |-> m.teams[i].team_key,
                 points |-> m.teams[i].points,
                 is_winner |-> m.teams[i].team_key = winner_key]]
    IN  [matchup_id |-> m.matchup_id,
         winner_team_key |-> winner_key,
         loser_team_key |->
            IF winner_key # NULL THEN m.teams[1].team_key ELSE NULL,
         teams |-> payload]

\* lines 516-543: the bracket entry of one matchup
MatchupEntry(m) ==
    LET winner_key == matchup_winner(m.teams, m.meta.winner_team_key)
        others == SelectSeq(m.teams, LAMBDA t : t.team_key # winner_key)
        loser_key ==
            IF winner_key # NULL /\ others # <<>> THEN others[1].team_key
            ELSE NULL
        payload ==
            [i \in 1 .. Len(m.teams) |->
                [team_key |-> m.teams[i].team_key,
                 points |-> m.teams[i].points,
                 is_winner |-> m.teams[i].team_key = winner_key]]
    IN  [matchup_id |-> m.matchup_id,
         winner_team_key |-> winner_key,
         loser_team_key |-> loser_key,
         teams |->
            IF winner_key # NULL
            THEN SelectSeq(payload, LAMBDA t : t.team_key = winner_key)
                 \o SelectSeq(payload, LAMBDA t : t.team_key # winner_key)
            ELSE payload]

PlayoffFilter(meta) == meta.is_playoffs = 1 /\ meta.is_consolation # 1

ConsolationFilter(meta) == meta.is_playoffs = 1 /\ meta.is_consolation = 1

\* filter_fn is one of the two filters above, named by is_consolation
build_bracket_rounds(lg, is_consolation) ==
    LET kept == {m \in lg.matchup_map :
                    /\ m.meta.present
                    /\ IF is_consolation THEN ConsolationFilter(m.meta)
                       ELSE PlayoffFilter(m.meta)
                    /\ Len(m.teams) >= 2}
        weeks == SortedWeeks({m.week : m \in kept})
    IN  [i \in 1 .. Len(weeks) |->
            [week |-> weeks[i],
             matchups |->
                LET sorted == SortByMatchupId({m \in kept : m.week = weeks[i]})
                IN  [j \in 1 .. Len(sorted) |-> MatchupEntry(sorted[j])]]]

playoff_rounds(lg) == build_bracket_rounds(lg, FALSE)

consolation_rounds(lg) == build_bracket_rounds(lg, TRUE)

----------------------------------------------------------------------------
(* Placement inference engine *)

EmptyDict == [t \in {} |-> 0]

\* assign(team_key, place): only a non-empty key that has no place yet
assign(placements, team_key, place) ==
    IF team_key # NULL /\ team_key # "" /\ team_key \notin DOMAIN placements
    THEN placements @@ (team_key :> place)
    ELSE placements

MatchupTeamKeys(entry) == {entry.teams[i].team_key : i \in 1 .. Len(entry.teams)}

\* the team keys of a round, in the order the matchups and their teams are listed
RECURSIVE RoundTeamList(_)
RoundTeamList(matchups) ==
    IF matchups = <<>> THEN <<>>
    ELSE [i \in 1 .. Len(Head(matchups).teams) |-> Head(matchups).teams[i].team_key]
         \o RoundTeamList(Tail(matchups))

\* lines 595-599 and 609-611: every listed team without a place takes
\* next_place, which then advances
RECURSIVE AssignInOrder(_, _, _)
AssignInOrder(placements, team_list, place) ==
    IF team_list = <<>> THEN [placements |-> placements, next_place |-> place]
    ELSE IF Head(team_list) \notin DOMAIN placements
         THEN AssignInOrder(assign(placements, Head(team_list), place),
                            Tail(team_list), place + 1)
         ELSE AssignInOrder(placements, Tail(team_list), place)

\* the last of the indices hits (the loop keeps the last matchup that
\* passes its test), 0 when there is none
LastIndex(hits) ==
    IF hits = {} THEN 0 ELSE CHOOSE i \in hits : \A j \in hits : j <= i

\* all_teams of compute_bracket_places
BracketTeams(rounds) ==
    UNION {UNION {MatchupTeamKeys(rounds[i].matchups[j]) :
                    j \in 1 .. Len(rounds[i].matchups)} :
            i \in 1 .. Len(rounds)}

\* lines 556-566
PrevWinners(rounds) ==
    IF Len(rounds) < 2 THEN {}
    ELSE LET prev == rounds[Len(rounds) - 1].matchups
         IN  {prev[i].winner_team_key : i \in 1 .. Len(prev)} \ {NULL}

PrevLosers(rounds) ==
    IF Len(rounds) < 2 THEN {}
    ELSE LET prev == rounds[Len(rounds) - 1].matchups
         IN  {prev[i].loser_team_key : i \in 1 .. Len(prev)} \ {NULL}

\* lines 574-585: index of champ_match in the final round, 0 for None
ChampIndex(rounds) ==
    LET final == rounds[Len(rounds)].matchups
        prev_winners == PrevWinners(rounds)
        found ==
            IF prev_winners = {} THEN 0
            ELSE LastIndex({i \in 1 .. Len(final) :
                            MatchupTeamKeys(final[i]) \subseteq prev_winners})
    IN  IF found = 0 /\ Len(final) = 1 THEN 1 ELSE found

\* lines 574-583: index of third_match in the final round, 0 for None
ThirdIndex(rounds) ==
    LET final == rounds[Len(rounds)].matchups
        prev_winners == PrevWinners(rounds)
        prev_losers == PrevLosers(rounds)
    IN  IF prev_winners = {} THEN 0
        ELSE LastIndex({i \in 1 .. Len(final) :
                /\ ~(MatchupTeamKeys(final[i]) \subseteq prev_winners)
                /\ prev_losers # {}
                /\ MatchupTeamKeys(final[i]) \subseteq prev_losers})

\* lines 587-592: the places read off the championship and third-place match
StructuralPlaces(rounds) ==
    LET final == rounds[Len(rounds)].matchups
        c == ChampIndex(rounds)
        t == ThirdIndex(rounds)
        p1 == IF c = 0 THEN EmptyDict
              ELSE assign(assign(EmptyDict, final[c].winner_team_key, 1),
                          final[c].loser_team_key, 2)
    IN  IF t = 0 THEN p1
        ELSE assign(assign(p1, final[t].winner_team_key, 3),
                    final[t].loser_team_key, 4)

\* a variant that leaves the teams without a place in set order
RemainingUnsorted(teams, placements, rank_key, order) ==
    SelectSeq(SetToList(teams, order), LAMBDA t : t \notin DOMAIN placements)

\* lines 601-608: bracket teams without a place, in set order, then sorted
\* (stably) by stored rank
RemainingSorted(teams, placements, rank_key, order) ==
    StableSort(SelectSeq(SetToList(teams, order),
                         LAMBDA t : t \notin DOMAIN placements),
               rank_key)

\* placements of compute_bracket_places(rounds, standings_rank)
compute_bracket_places(rounds, rank_key, order) ==
    IF Len(rounds) = 0 THEN EmptyDict
    ELSE
        LET final == rounds[Len(rounds)].matchups
            structural == StructuralPlaces(rounds)
            listed == AssignInOrder(structural, RoundTeamList(final),
                                    MaxValue(structural) + 1)
            remaining == RemainingSorted(BracketTeams(rounds),
                                         listed.placements, rank_key, order)
        IN  AssignInOrder(listed.placements, remaining,
                          listed.next_place).placements

----------------------------------------------------------------------------
(* Merge into the final ranking, lines 644-658 *)

\* a variant that copies the relative consolation place without the offset
MergeConsolationNoOffset(places, consolation, place) ==
    [t \in DOMAIN places \cup DOMAIN consolation |->
        IF t \in DOMAIN consolation THEN consolation[t] ELSE places[t]]

\* lines 649-650: final_places[team_key] = next_place + place - 1
MergeConsolation(places, consolation, place) ==
    [t \in DOMAIN places \cup DOMAIN consolation |->
        IF t \in DOMAIN consolation THEN place + consolation[t] - 1
        ELSE places[t]]

\* lines 651-652
NextPlaceAfterMerge(places, consolation, place) ==
    IF DOMAIN consolation # {} THEN MaxValue(places) + 1 ELSE place

\* lines 654-658
AppendRemaining(places, place, lg, order) ==
    LET remaining == RemainingSorted(team_keys(lg), places, RankKey(lg), order)
    IN  [t \in DOMAIN places \cup Range(remaining) |->
            IF t \in DOMAIN places THEN places[t]
            ELSE place - 1
                 + CHOOSE i \in 1 .. Len(remaining) : remaining[i] = t]

\* final_places of one pass, given the set iteration order
FinalPlaces(lg, order) ==
    LET playoff == compute_bracket_places(playoff_rounds(lg), RankKey(lg), order)
        consolation ==
            compute_bracket_places(consolation_rounds(lg), RankKey(lg), order)
        start == MaxValue(playoff) + 1
        merged == MergeConsolation(playoff, consolation, start)
    IN  AppendRemaining(merged, NextPlaceAfterMerge(merged, consolation, start),
                        lg, order)

----------------------------------------------------------------------------
(* Season metrics, lines 294-493: the parts that decide whether the pass
   of a league-season raises *)

\* the order in which the rows of the standings table are returned, which is
\* the insertion order of the standings_rows dict
TableOrder == <<"A", "B", "C", "D", "E">>

\* lines 303-311: matchups kept in weekly_matchups (every matchup that is not
\* a playoff non-consolation matchup; a missing meta row reads as 0, 0)
weekly_matchups(lg) ==
    {m \in lg.matchup_map :
        ~(m.meta.is_playoffs # 0 /\ m.meta.is_consolation = 0)}

\* lines 307-310
playoff_team_keys(lg) ==
    UNION {{m.teams[i].team_key : i \in 1 .. Len(m.teams)} :
            m \in {x \in lg.matchup_map :
                    x.meta.is_playoffs # 0 /\ x.meta.is_consolation = 0}}

\* lines 381-383
playoff_count(lg) ==
    LET n == Cardinality(playoff_team_keys(lg))
        half == Cardinality(team_keys(lg)) \div 2
    IN  IF n # 0 THEN n ELSE IF half > 4 THEN half ELSE 4

\* row["rank"] or dflt
RankOr(lg, t, dflt) ==
    LET r == lg.standings_rows[t].rank
    IN  IF IsNone(r) \/ r = Some(0) THEN dflt ELSE r[1]

\* line 368: gap = median_wins.get(team_key, 0) - wins is a TypeError when the
\* standings row of a team has wins NULL
GapRaises(lg) ==
    \E t \in team_keys(lg) :
        t \in DOMAIN lg.standings_rows /\ IsNone(lg.standings_rows[t].wins)

\* lines 389-413: week_records[winner], week_records[loser] and
\* record_map[team_key] are KeyErrors for a team outside team_keys
UpsetLoopRaises(lg) ==
    \E m \in weekly_matchups(lg) :
        LET r == _matchup_result(m.teams)
        IN  \/ /\ r.kind = "decided"
               /\ (r.winner \notin team_keys(lg) \/ r.loser \notin team_keys(lg))
            \/ /\ r.kind = "tie"
               /\ \E i \in 1 .. Len(m.teams) :
                    m.teams[i].team_key \notin team_keys(lg)

\* lines 435-451: playoff_ranks and non_playoff_ranks, as lists of the team
\* keys of their rows
playoff_ranks(lg, order) ==
    IF playoff_team_keys(lg) # {}
    THEN SetToList(playoff_team_keys(lg) \cap DOMAIN lg.standings_rows, order)
    ELSE LET sorted_rows ==
                StableSort(SetToList(DOMAIN lg.standings_rows, TableOrder),
                           [t \in DOMAIN lg.standings_rows |->
                                RankOr(lg, t, RankSentinel)])
         IN  SubSeq(sorted_rows, 1,
                    IF playoff_count(lg) < Len(sorted_rows)
                    THEN playoff_count(lg) ELSE Len(sorted_rows))

non_playoff_ranks(lg) ==
    IF playoff_team_keys(lg) # {}
    THEN SetToList(DOMAIN lg.standings_rows \ playoff_team_keys(lg), TableOrder)
    ELSE LET sorted_rows ==
                StableSort(SetToList(DOMAIN lg.standings_rows, TableOrder),
                           [t \in DOMAIN lg.standings_rows |->
                                RankOr(lg, t, RankSentinel)])
         IN  SubSeq(sorted_rows, playoff_count(lg) + 1, Len(sorted_rows))

\* max(rows, key=...) and min(rows, key=...): the first extremal element
FirstMax(seq, key) ==
    seq[CHOOSE i \in 1 .. Len(seq) :
            /\ \A j \in 1 .. Len(seq) : key[seq[j]] <= key[seq[i]]
            /\ \A j \in 1 .. i - 1 : key[seq[j]] < key[seq[i]]]

FirstMin(seq, key) ==
    seq[CHOOSE i \in 1 .. Len(seq) :
            /\ \A j \in 1 .. Len(seq) : key[seq[j]] >= key[seq[i]]
            /\ \A j \in 1 .. i - 1 : key[seq[j]] > key[seq[i]]]

\* lines 432-456: team key of the playoff_cutoff row, NULL for None
playoff_cutoff(lg, order) ==
    IF DOMAIN lg.standings_rows = {} \/ playoff_ranks(lg, order) = <<>> THEN NULL
    ELSE FirstMax(playoff_ranks(lg, order),
                  [t \in DOMAIN lg.standings_rows |-> RankOr(lg, t, 0)])

\* lines 432-456: team key of the first_out row, NULL for None
first_out(lg) ==
    IF DOMAIN lg.standings_rows = {} \/ non_playoff_ranks(lg) = <<>> THEN NULL
    ELSE FirstMin(non_playoff_ranks(lg),
                  [t \in DOMAIN lg.standings_rows |-> RankOr(lg, t, RankSentinel)])

\* lines 458-463: None - float and float - None are TypeErrors
PointsGapRaises(lg, order) ==
    /\ playoff_cutoff(lg, order) # NULL
    /\ first_out(lg) # NULL
    /\ \/ IsNone(_to_float(lg.standings_rows[playoff_cutoff(lg, order)].points_for))
       \/ IsNone(_to_float(lg.standings_rows[first_out(lg)].points_for))

\* lines 458-463: points_gap, <<>> for None
points_gap(lg, order) ==
    IF playoff_cutoff(lg, order) # NULL /\ first_out(lg) # NULL
    THEN Some(_to_float(lg.standings_rows[playoff_cutoff(lg, order)].points_for)[1]
              - _to_float(lg.standings_rows[first_out(lg)].points_for)[1])
    ELSE NoneNum

\* the playoff_bubble of a pass that has not reached line 432
NoBubble ==
    [playoff_teams |-> 0, points_gap |-> NoneNum, last_seed |-> NULL,
     first_out |-> NULL]

\* whether lines 294-493 raise for this league-season
MetricsRaise(lg, order) ==
    GapRaises(lg) \/ UpsetLoopRaises(lg) \/ PointsGapRaises(lg, order)

----------------------------------------------------------------------------
(* Bounded league-season inputs *)

\* leagues in the leagues table
NumLeagues == 2

SemiWeek == 15

FinalWeek == 16

RegularWeek == 1

Row(rank, wins, points_for) ==
    [rank |-> rank, wins |-> wins, points_for |-> points_for]

\* a two-team matchup with raw points pa, pb and empty win_status
Game(week, id, ta, pa, tb, pb, meta) ==
    Matchup(week, id,
            <<LoadEntry(ta, pa, ""), LoadEntry(tb, pb, "")>>, meta)

\* outcomes of a bracket matchup between ta and tb: the first team wins on
\* points, the second team is the declared winner against the points, or no
\* winner can be resolved (a score is NULL)
BracketGames(week, id, ta, tb, consolation) ==
    { Game(week, id, ta, RawReal(2), tb, RawReal(1), Meta(1, consolation, NULL)),
      Game(week, id, ta, RawReal(2), tb, RawReal(1), Meta(1, consolation, tb)),
      Game(week, id, ta, RawNull, tb, RawReal(1), Meta(1, consolation, NULL)) }

\* each option is the set of matchup rows it adds to matchup_map
Semi1Options ==
    {{}} \cup {{g} : g \in BracketGames(SemiWeek, 1, "A", "B", 0)}

Semi2Options ==
    {{}} \cup {{g} : g \in BracketGames(SemiWeek, 2, "C", "D", 0)}

Final1Options ==
    {{}} \cup {{g} : g \in UNION {BracketGames(FinalWeek, 1, "A", tb, c) :
                                    tb \in {"C", "E"}, c \in {0, 1}}}

Final2Options ==
    {{}} \cup {{g} : g \in UNION {BracketGames(FinalWeek, 2, "B", "D", c) :
                                    c \in {0, 1}}}

BracketOptions ==
    {s1 \cup s2 \cup f1 \cup f2 :
        s1 \in Semi1Options, s2 \in Semi2Options,
        f1 \in Final1Options, f2 \in Final2Options}

\* regular-season weeks: none; one decisive game; a tied game and a decisive
\* game against team E
RegularOptions ==
    { {},
      {Game(RegularWeek, 1, "A", RawReal(2), "B", RawReal(1), Meta(0, 0, NULL))},
      {Game(RegularWeek, 1, "A", RawReal(1), "B", RawReal(1), Meta(0, 0, NULL)),
       Game(RegularWeek, 2, "C", RawReal(0), "E", RawReal(2), NoMeta)} }

\* standings tables: no rows; every team ranked in table order; the same
\* without a row for E; every team with rank NULL; rows for A and C only,
\* both with rank 1, C without points_for
StandingsOptions ==
    { EmptyDict,
      [t \in TeamKeys |->
          Row(Some(CHOOSE i \in 1 .. Len(TableOrder) : TableOrder[i] = t),
              Some(1), RawReal(2))],
      [t \in TeamKeys \ {"E"} |->
          Row(Some(CHOOSE i \in 1 .. Len(TableOrder) : TableOrder[i] = t),
              Some(1), RawReal(2))],
      [t \in TeamKeys |-> Row(NoneNum, Some(0), RawReal(1))],
      [t \in {"A", "C"} |->
          Row(Some(1), Some(1), IF t = "C" THEN RawNull ELSE RawReal(2))] }

RosterOptions == {{}, {"A", "B", "C", "D"}, TeamKeys}

League(team_info, standings_rows, matchup_map) ==
    [team_info |-> team_info, standings_rows |-> standings_rows,
     matchup_map |-> matchup_map]

\* the 4-team bracket: semifinals A-B and C-D, final A-C and the
\* consolation-flagged final B-D, each won by the first team on points
FourTeamBracket ==
    { Game(SemiWeek, 1, "A", RawReal(2), "B", RawReal(1), Meta(1, 0, NULL)),
      Game(SemiWeek, 2, "C", RawReal(2), "D", RawReal(1), Meta(1, 0, NULL)),
      Game(FinalWeek, 1, "A", RawReal(2), "C", RawReal(1), Meta(1, 0, NULL)),
      Game(FinalWeek, 2, "B", RawReal(2), "D", RawReal(1), Meta(1, 1, NULL)) }

\* every bracket shape, for a 4-team roster with ranked or unranked standings
BracketLeagues ==
    {League({"A", "B", "C", "D"}, st, b) :
        st \in {x \in StandingsOptions : DOMAIN x = TeamKeys},
        b \in BracketOptions}

\* every roster, standings table and regular season, for three brackets
RosterLeagues ==
    {League(ro, st, b \cup rg) :
        ro \in RosterOptions, st \in StandingsOptions, rg \in RegularOptions,
        b \in {{}, FourTeamBracket,
               {g \in FourTeamBracket : g.week = SemiWeek}}}

\* a consolation bracket with two rounds whose final round holds the game
\* of the first-round losers B and D and a game of A against a newcomer E
LadderConsolation ==
    { Game(SemiWeek, 1, "A", RawReal(2), "B", RawReal(1), Meta(1, 1, NULL)),
      Game(SemiWeek, 2, "C", RawReal(2), "D", RawReal(1), Meta(1, 1, NULL)),
      Game(FinalWeek, 1, "A", RawReal(2), "E", RawReal(1), Meta(1, 1, NULL)),
      Game(FinalWeek, 2, "B", RawReal(2), "D", RawReal(1), Meta(1, 1, NULL)) }

\* that consolation bracket alone, and next to a one-game playoff bracket
LadderLeagues ==
    {League(TeamKeys,
            [t \in TeamKeys |->
                Row(Some(CHOOSE i \in 1 .. Len(TableOrder) : TableOrder[i] = t),
                    Some(1), RawReal(2))],
            LadderConsolation \cup po) :
        po \in { {}, {Game(FinalWeek, 3, "A", RawReal(2), "C", RawReal(1),
                           Meta(1, 0, NULL))} }}

LeagueInputs == BracketLeagues \cup RosterLeagues \cup LadderLeagues

HashOrders == {TableOrder, <<"E", "D", "C", "B", "A">>}

NoLeague == League({}, EmptyDict, {})

----------------------------------------------------------------------------
(* export_league_summary, lines 146-173 *)

\* matchup_map.items(): the matchups in the order their rows are stored,
\* which for the inputs below is by week and then by matchup_id
MatchupList(lg) ==
    LET weeks == SortedWeeks({m.week : m \in lg.matchup_map})
        by_week == [i \in 1 .. Len(weeks) |->
                        SortByMatchupId({m \in lg.matchup_map : m.week = weeks[i]})]
        flat[i \in 0 .. Len(weeks)] ==
            IF i = 0 THEN <<>> ELSE flat[i - 1] \o by_week[i]
    IN  flat[Len(weeks)]

\* the record a team starts with, lines 135-144 and 158-159
ZeroRecord ==
    [wins |-> 0, losses |-> 0, ties |-> 0, points_for |-> 0,
     points_against |-> 0]

\* dict.setdefault(k, v)
setdefault(d, k, v) == IF k \in DOMAIN d THEN d ELSE d @@ (k :> v)

\* lines 147-156: the matchup passes the three continue tests
SummaryCounts(m) ==
    /\ m.meta.is_playoffs # 1
    /\ Len(m.teams) = 2
    /\ ~IsNone(m.teams[1].points)
    /\ ~IsNone(m.teams[2].points)

\* lines 147-173: the loop body for one matchup. The entries are loaded at
\* lines 123-130 with team_key and points only
SummaryStep(recs, m) ==
    IF ~SummaryCounts(m) THEN recs
    ELSE
        LET team_a == m.teams[1].team_key
            team_b == m.teams[2].team_key
            points_a == m.teams[1].points[1]
            points_b == m.teams[2].points[1]
            r0 == setdefault(setdefault(recs, team_a, ZeroRecord),
                             team_b, ZeroRecord)
            r1 == [r0 EXCEPT ![team_a].points_for = @ + points_a,
                             ![team_a].points_against = @ + points_b]
            r2 == [r1 EXCEPT ![team_b].points_for = @ + points_b,
                             ![team_b].points_against = @ + points_a]
        IN  IF points_a > points_b
            THEN [[r2 EXCEPT ![team_a].wins = @ + 1]
                        EXCEPT ![team_b].losses = @ + 1]
            ELSE IF points_b > points_a
            THEN [[r2 EXCEPT ![team_b].wins = @ + 1]
                        EXCEPT ![team_a].losses = @ + 1]
            ELSE [[r2 EXCEPT ![team_a].ties = @ + 1]
                        EXCEPT ![team_b].ties = @ + 1]

----------------------------------------------------------------------------
(* export_league_overview, lines 303-413: accumulation, median wins and the
   weekly record loop *)

\* line 307: is_playoffs and not is_consolation
SkippedAsPlayoff(meta) == meta.is_playoffs # 0 /\ meta.is_consolation = 0

\* lines 312-316: (team_key, points) of the entries whose points are not None
RECURSIVE ScoredItems(_)
ScoredItems(teams) ==
    IF teams = <<>> THEN <<>>
    ELSE IF IsNone(Head(teams).points) THEN ScoredItems(Tail(teams))
    ELSE <<<<Head(teams).team_key, Head(teams).points[1]>>>>
         \o ScoredItems(Tail(teams))

\* d.get(k, dflt)
Get(d, k, dflt) == IF k \in DOMAIN d THEN d[k] ELSE dflt

\* d[k] += n on a defaultdict
AddTo(d, k, n) ==
    IF k \in DOMAIN d THEN [d EXCEPT ![k] = @ + n] ELSE d @@ (k :> n)

\* line 317 for every item of a list
RECURSIVE AddPoints(_, _)
AddPoints(d, items) ==
    IF items = <<>> THEN d
    ELSE AddPoints(AddTo(d, Head(items)[1], Head(items)[2]), Tail(items))

RECURSIVE SumPoints(_)
SumPoints(items) ==
    IF items = <<>> THEN 0 ELSE Head(items)[2] + SumPoints(Tail(items))

\* abs(x)
abs(x) == IF x < 0 THEN 0 - x ELSE x

\* lines 321-325: the margins a matchup appends
MarginOf(teams) ==
    IF Len(teams) = 2 /\ ~IsNone(teams[1].points) /\ ~IsNone(teams[2].points)
    THEN <<abs(teams[1].points[1] - teams[2].points[1])>>
    ELSE <<>>

\* sorted(values) for a list of numbers
sorted(values) == StableSort(values, [x \in Range(values) |-> x])

\* 2 * statistics.median(values) for a non-empty list: the middle value, or
\* the mean of the two middle values; doubled so that it stays an integer
median_doubled(values) ==
    LET s == sorted(values)
        n == Len(s)
    IN  IF n % 2 = 1 THEN 2 * s[(n + 1) \div 2]
        ELSE s[n \div 2] + s[n \div 2 + 1]

\* a variant of the test of line 350 with a strict comparison
earns_median_win_strict(points, week_median_doubled) ==
    2 * points > week_median_doubled

\* line 350: points >= week_median_score
earns_median_win(points, week_median_doubled) ==
    2 * points >= week_median_doubled

\* lines 345-351 for the items of one week
RECURSIVE MedianWeekLoop(_, _, _)
MedianWeekLoop(wins, items, week_median_doubled) ==
    IF items = <<>> THEN wins
    ELSE MedianWeekLoop(
            IF earns_median_win(Head(items)[2], week_median_doubled)
            THEN AddTo(wins, Head(items)[1], 1) ELSE wins,
            Tail(items), week_median_doubled)

PointsList(items) == [i \in 1 .. Len(items) |-> items[i][2]]

\* _win_pct(record) as the fraction <<numerator, denominator>>
_win_pct(record) ==
    LET total == record.wins + record.losses + record.ties
    IN  IF total = 0 THEN <<0, 1>>
        ELSE <<2 * record.wins + record.ties, 2 * total>>

\* p < q for two such fractions
PctLess(p, q) == p[1] * q[2] < q[1] * p[2]

\* weekly_matchups[week], in the order the matchups were appended
WeekMatchups(lg, week) ==
    SortByMatchupId({m \in weekly_matchups(lg) : m.week = week})

\* sorted(weekly_matchups.keys())
RecordWeeks(lg) == SortedWeeks({m.week : m \in weekly_matchups(lg)})

\* lines 389-413: a key outside record_map is a KeyError
WeekRaises(rm, matchups) ==
    \E i \in 1 .. Len(matchups) :
        LET r == _matchup_result(matchups[i].teams)
        IN  \/ /\ r.kind = "decided"
               /\ (r.winner \notin DOMAIN rm \/ r.loser \notin DOMAIN rm)
            \/ /\ r.kind = "tie"
               /\ \E j \in 1 .. Len(matchups[i].teams) :
                    matchups[i].teams[j].team_key \notin DOMAIN rm

\* lines 409-410: for team in teams: record_map[team_key]["ties"] += 1
RECURSIVE AddTies(_, _)
AddTies(rm, teams) ==
    IF teams = <<>> THEN rm
    ELSE AddTies([rm EXCEPT ![Head(teams).team_key].ties = @ + 1], Tail(teams))

\* a variant of the record update that credits the win and not the loss
RecordStep_win_only(rm, teams) ==
    LET r == _matchup_result(teams)
    IN  IF r.kind = "None" THEN rm
        ELSE IF r.kind = "tie" THEN AddTies(rm, teams)
        ELSE [rm EXCEPT ![r.winner].wins = @ + 1]

\* lines 405-413: the record update for one matchup
RecordStep(rm, teams) ==
    LET r == _matchup_result(teams)
    IN  IF r.kind = "None" THEN rm
        ELSE IF r.kind = "tie" THEN AddTies(rm, teams)
        ELSE [[rm EXCEPT ![r.winner].wins = @ + 1]
                    EXCEPT ![r.loser].losses = @ + 1]

\* lines 404-413 for the matchups of one week
RECURSIVE RecordWeekLoop(_, _)
RecordWeekLoop(rm, matchups) ==
    IF matchups = <<>> THEN rm
    ELSE RecordWeekLoop(RecordStep(rm, Head(matchups).teams), Tail(matchups))

\* a variant of the upset loop judged on the records as they are after the
\* week
WeekGames_after_week(week_records, matchups) ==
    [games |->
        Cardinality({i \in 1 .. Len(matchups) :
            _matchup_result(matchups[i].teams).kind = "decided"}),
     upsets |->
        Cardinality({i \in 1 .. Len(matchups) :
            LET r == _matchup_result(matchups[i].teams)
                after == RecordWeekLoop(week_records, matchups)
            IN  /\ r.kind = "decided"
                /\ PctLess(_win_pct(after[r.winner]), _win_pct(after[r.loser]))})]

\* a variant of the upset loop that counts a game only when the two win
\* percentages differ
WeekGames_unequal_only(week_records, matchups) ==
    [games |->
        Cardinality({i \in 1 .. Len(matchups) :
            LET r == _matchup_result(matchups[i].teams)
            IN  /\ r.kind = "decided"
                /\ (\/ PctLess(_win_pct(week_records[r.winner]),
                               _win_pct(week_records[r.loser]))
                    \/ PctLess(_win_pct(week_records[r.loser]),
                               _win_pct(week_records[r.winner])))}),
     upsets |->
        Cardinality({i \in 1 .. Len(matchups) :
            LET r == _matchup_result(matchups[i].teams)
            IN  /\ r.kind = "decided"
                /\ PctLess(_win_pct(week_records[r.winner]),
                           _win_pct(week_records[r.loser]))})]

\* lines 389-402: the games and upsets one week adds, judged on week_records,
\* the records as they were before the week
WeekGames(week_records, matchups) ==
    [games |->
        Cardinality({i \in 1 .. Len(matchups) :
            _matchup_result(matchups[i].teams).kind = "decided"}),
     upsets |->
        Cardinality({i \in 1 .. Len(matchups) :
            LET r == _matchup_result(matchups[i].teams)
            IN  /\ r.kind = "decided"
                /\ PctLess(_win_pct(week_records[r.winner]),
                           _win_pct(week_records[r.loser]))})]

\* lines 353-356: row["wins"] if row else 0
actual_wins(lg, t) ==
    IF t \in DOMAIN lg.standings_rows THEN lg.standings_rows[t].wins[1] ELSE 0

\* line 369 with >= in place of >
GapReplaces_on_equal(gap, best) ==
    IsNone(best.gap_value) \/ gap >= best.gap_value[1]

\* line 369: if gap_value is None or gap > gap_value
GapReplaces(gap, best) ==
    IsNone(best.gap_value) \/ gap > best.gap_value[1]

\* lines 365-366
NoGap == [gap_value |-> NoneNum, gap_team_key |-> NULL]

\* lines 367-371 over the items of actual_wins, which are in the order the
\* set team_keys was iterated at line 354
RECURSIVE GapLoop(_, _, _, _)
GapLoop(best, items, wins_by_median, lg) ==
    IF items = <<>> THEN best
    ELSE LET gap == Get(wins_by_median, Head(items), 0)
                    - actual_wins(lg, Head(items))
         IN  GapLoop(IF GapReplaces(gap, best)
                     THEN [gap_value |-> Some(gap), gap_team_key |-> Head(items)]
                     ELSE best,
                     Tail(items), wins_by_median, lg)

\* line 428 without reverse=True
SnapshotBefore_ascending(a, b) ==
    \/ PctLess(a.pct, b.pct)
    \/ /\ ~PctLess(a.pct, b.pct)
       /\ ~PctLess(b.pct, a.pct)
       /\ a.points < b.points

\* line 428: item a sorts strictly before item b under the key
\* (win_pct, points_to_date) with reverse=True
SnapshotBefore(a, b) ==
    \/ PctLess(b.pct, a.pct)
    \/ /\ ~PctLess(a.pct, b.pct)
       /\ ~PctLess(b.pct, a.pct)
       /\ a.points > b.points

\* line 428: list.sort is stable, also with reverse=True
RECURSIVE SortSnapshot(_)
SortSnapshot(s) ==
    IF s = <<>> THEN <<>>
    ELSE LET h == Head(s)
             rest == SortSnapshot(Tail(s))
         IN  SelectSeq(rest, LAMBDA e : SnapshotBefore(e, h))
             \o <<h>>
             \o SelectSeq(rest, LAMBDA e : ~SnapshotBefore(e, h))

\* lines 418-428: the sorted standings_snapshot of the team keys in `keys`
standings_snapshot(keys, rm, to_date) ==
    SortSnapshot([i \in 1 .. Len(keys) |->
                    [pct |-> _win_pct(rm[keys[i]]),
                     points |-> Get(to_date, keys[i], 0),
                     team_key |-> keys[i]]])

\* lines 429-430: for _, _, team_key in standings_snapshot[:playoff_count]
RECURSIVE CreditSpots(_, _, _)
CreditSpots(spots, snapshot, count) ==
    IF snapshot = <<>> \/ count = 0 THEN spots
    ELSE CreditSpots(AddTo(spots, Head(snapshot).team_key, 1),
                     Tail(snapshot), count - 1)

----------------------------------------------------------------------------
(* Bounded season inputs: regular-season and playoff matchups with declared
   statuses, one-team and three-team matchups *)

StatusGame(week, id, ta, pa, sa, tb, pb, sb, meta) ==
    Matchup(week, id, <<LoadEntry(ta, pa, sa), LoadEntry(tb, pb, sb)>>, meta)

\* outcomes of a matchup between ta and tb: decided on points; equal points;
\* a declared win on the lower score; two declared wins; a declared tie with
\* a NULL score; a NULL score and no status; a declared win on equal points
HeadToHead(week, id, ta, tb, meta) ==
    { StatusGame(week, id, ta, RawReal(2), "", tb, RawReal(1), "", meta),
      StatusGame(week, id, ta, RawReal(1), "", tb, RawReal(1), "", meta),
      StatusGame(week, id, ta, RawReal(1), "win", tb, RawReal(2), "loss", meta),
      StatusGame(week, id, ta, RawReal(1), "win", tb, RawReal(2), "win", meta),
      StatusGame(week, id, ta, RawNull, "tie", tb, RawReal(1), NULL, meta),
      StatusGame(week, id, ta, RawNull, "", tb, RawReal(1), "", meta),
      StatusGame(week, id, ta, RawReal(1), "loss", tb, RawReal(1), "WIN", meta) }

\* a matchup with a single entry, and one with three entries
OneTeam(week, id, meta) ==
    Matchup(week, id, <<LoadEntry("C", RawReal(2), "")>>, meta)

ThreeTeams(week, id, meta) ==
    Matchup(week, id,
            <<LoadEntry("C", RawReal(2), ""), LoadEntry("D", RawReal(1), ""),
              LoadEntry("E", RawReal(0), "")>>, meta)

\* the second matchup of the first week: none, a plain game, a one-team and
\* a three-team matchup, a consolation-flagged and a playoff-flagged game
SecondGameOptions ==
    { {},
      {Game(RegularWeek, 2, "C", RawReal(2), "D", RawReal(1), NoMeta)},
      {OneTeam(RegularWeek, 2, Meta(0, 0, NULL))},
      {ThreeTeams(RegularWeek, 2, Meta(0, 0, NULL))},
      {Game(RegularWeek, 2, "C", RawReal(2), "D", RawReal(0), Meta(1, 1, NULL))},
      {Game(RegularWeek, 2, "C", RawReal(2), "D", RawReal(0), Meta(1, 0, NULL))} }

\* the week after: none, a rematch won by B, a game of A against C
NextWeekOptions ==
    { {},
      {Game(RegularWeek + 1, 1, "B", RawReal(2), "A", RawReal(1), Meta(0, 0, NULL))},
      {Game(RegularWeek + 1, 1, "A", RawReal(0), "C", RawReal(2), Meta(0, 0, NULL))} }

RegularSeasons ==
    {League(TeamKeys, EmptyDict, {g1} \cup g2 \cup g3) :
        g1 \in HeadToHead(RegularWeek, 1, "A", "B", Meta(0, 0, NULL)),
        g2 \in SecondGameOptions, g3 \in NextWeekOptions}

\* a playoff semifinal between A and B: every outcome above without a
\* declared winner, a declared winner against the points, and an empty
\* declared winner
SemifinalOptions ==
    HeadToHead(SemiWeek, 1, "A", "B", Meta(1, 0, NULL))
    \cup { Game(SemiWeek, 1, "A", RawReal(2), "B", RawReal(1), Meta(1, 0, "B")),
           StatusGame(SemiWeek, 1, "A", RawReal(1), "win", "B", RawReal(2), "",
                      Meta(1, 0, "")) }

OtherSemifinalOptions ==
    { {},
      {Game(SemiWeek, 2, "C", RawReal(2), "D", RawReal(1), Meta(1, 1, NULL))},
      {ThreeTeams(SemiWeek, 2, Meta(1, 0, NULL))},
      {OneTeam(SemiWeek, 2, Meta(1, 1, NULL))} }

FinalOptions ==
    { {},
      {Game(FinalWeek, 1, "A", RawReal(2), "C", RawReal(1), Meta(1, 0, NULL))} }

PlayoffSeasons ==
    {League(TeamKeys, EmptyDict, {g1} \cup g2 \cup g3) :
        g1 \in SemifinalOptions, g2 \in OtherSemifinalOptions,
        g3 \in FinalOptions}

\* six teams scoring 100, 90, 80, 70, 60 and 50 in one week
MedianScenario ==
    League({"A", "B", "C", "D", "E", "F"}, EmptyDict,
           { Game(RegularWeek, 1, "A", RawReal(100), "F", RawReal(50), NoMeta),
             Game(RegularWeek, 2, "B", RawReal(90), "E", RawReal(60), NoMeta),
             Game(RegularWeek, 3, "C", RawReal(80), "D", RawReal(70), NoMeta) })

\* a regular-season game against a team that has no roster row
OutsiderSeason ==
    League({"A", "B"}, EmptyDict,
           { Game(RegularWeek, 1, "A", RawReal(2), "C", RawReal(1), NoMeta) })

\* a standings row without wins, and a playoff_cutoff row next to a first_out
\* row without points_for
GapSeason ==
    League({"A", "B"}, [t \in {"A"} |-> Row(Some(1), NoneNum, RawReal(2))], {})

PointsGapSeason ==
    League(TeamKeys,
           [t \in {"A", "C"} |->
               Row(Some(1), Some(1), IF t = "C" THEN RawNull ELSE RawReal(2))],
           { Game(SemiWeek, 1, "A", RawReal(2), "B", RawReal(1), Meta(1, 0, NULL)) })

\* ten teams and one week of five games, no playoff matchup
TenTeamSeason ==
    League({"A", "B", "C", "D", "E", "F", "G", "H", "I", "J"}, EmptyDict,
           { Game(RegularWeek, 1, "A", RawReal(2), "B", RawReal(1), NoMeta),
             Game(RegularWeek, 2, "C", RawReal(1), "D", RawReal(2), NoMeta),
             Game(RegularWeek, 3, "E", RawReal(2), "F", RawReal(2), NoMeta),
             Game(RegularWeek, 4, "G", RawReal(0), "H", RawReal(1), NoMeta),
             Game(RegularWeek, 5, "I", RawReal(2), "J", RawReal(0), NoMeta) })

\* standings tables with wins and points_for: every team ranked in table
\* order, the ranks reversed, A and D without a rank, and rows for A, B and C
\* only
SeasonStandings ==
    { [t \in TeamKeys |->
        Row(Some(CHOOSE i \in 1 .. 5 : TableOrder[i] = t),
            Some(IF t \in {"C", "D"} THEN 1 ELSE 0),
            RawReal(CHOOSE i \in 1 .. 5 : TableOrder[i] = t))],
      [t \in TeamKeys |->
        Row(Some(6 - (CHOOSE i \in 1 .. 5 : TableOrder[i] = t)),
            Some(IF t = "A" THEN 2 ELSE 1), RawReal(2))],
      [t \in TeamKeys |->
        Row(IF t \in {"A", "D"} THEN NoneNum
            ELSE Some(CHOOSE i \in 1 .. 5 : TableOrder[i] = t),
            Some(0), RawReal(IF t = "B" THEN 7 ELSE 3))],
      [t \in {"A", "B", "C"} |->
        Row(Some(CHOOSE i \in 1 .. 5 : TableOrder[i] = t), Some(1),
            RawReal(4))] }

\* the regular-season weeks of a league that has standings
StandingsGames ==
    { {},
      { Game(RegularWeek, 1, "A", RawReal(2), "B", RawReal(1), NoMeta),
        Game(RegularWeek, 2, "C", RawReal(1), "D", RawReal(2), NoMeta) },
      { Game(RegularWeek, 1, "A", RawReal(1), "B", RawReal(1), NoMeta),
        Game(RegularWeek, 2, "C", RawReal(2), "E", RawReal(0), NoMeta),
        Game(RegularWeek + 1, 1, "B", RawReal(2), "C", RawReal(1), NoMeta) } }

\* the playoff matchups the league has: none, a final between A and B, a
\* final between C and E
StandingsPlayoffs ==
    { {},
      { Game(FinalWeek, 1, "A", RawReal(2), "B", RawReal(1), Meta(1, 0, NULL)) },
      { Game(FinalWeek, 1, "C", RawReal(2), "E", RawReal(1), Meta(1, 0, NULL)) } }

StandingsSeasons ==
    {League(TeamKeys, s, g \cup p) :
        s \in SeasonStandings, g \in StandingsGames, p \in StandingsPlayoffs}

SeasonInputs ==
    RegularSeasons \cup PlayoffSeasons \cup StandingsSeasons
    \cup {MedianScenario, OutsiderSeason, GapSeason, PointsGapSeason,
          TenTeamSeason}

\* the iteration orders of a set of team keys in a season pass
SeasonOrders ==
    { <<"A", "B", "C", "D", "E", "F", "G", "H", "I", "J">>,
      <<"J", "I", "H", "G", "F", "E", "D", "C", "B", "A">> }

\* sync_all.main has not been started and the data directory is empty
NoArgs ==
    [resume |-> FALSE, only |-> NULL, start_at |-> NULL, start_after |-> NULL,
     skip_existing |-> FALSE]

InitSyncVars ==
    /\ sync_pc = "idle"
    /\ runs = 0
    /\ args = NoArgs
    /\ sorted_leagues = <<>>
    /\ leagues = <<>>
    /\ phase = 1
    /\ fetch_pc = "none"
    /\ response = 0
    /\ fetch_result = "none"
    /\ counter = 1
    /\ raw_files = {}
    /\ raw_responses = <<>>
    /\ progress = NULL
    /\ with_data = {}
    /\ synced = <<>>
    /\ completed = {}

\* the locals of the season metrics before the first loop
InitSeasonVars ==
    /\ cursor = 1
    /\ records = EmptyDict
    /\ week_team_points = EmptyDict
    /\ points_by_team = EmptyDict
    /\ total_points = 0
    /\ margins = <<>>
    /\ median_wins = EmptyDict
    /\ record_map = EmptyDict
    /\ total_games = 0
    /\ upset_games = 0
    /\ playoff_bracket = <<>>
    /\ consolation_bracket = <<>>
    /\ gap_value = NoneNum
    /\ gap_team_key = NULL
    /\ points_to_date = EmptyDict
    /\ playoff_weeks_in_spot = EmptyDict
    /\ playoff_bubble = NoBubble

----------------------------------------------------------------------------
(* export_league_overview: the loop over league_seasons *)

InitRun ==
    /\ leagues_done = 0
    /\ league = NoLeague
    /\ hash_order = TableOrder
    /\ pc = "loop"
    /\ playoff_places_rel = EmptyDict
    /\ consolation_places_rel = EmptyDict
    /\ final_places = EmptyDict
    /\ next_place = 0
    /\ overview_rows = <<>>
    /\ written = FALSE

\* lines 284-292 for a league-season with teams
NextLeague ==
    /\ pc = "loop"
    /\ leagues_done < NumLeagues
    /\ \E lg \in LeagueInputs, order \in HashOrders :
        /\ team_keys(lg) # {}
        /\ league' = lg
        /\ hash_order' = order
    /\ pc' = "metrics"
    /\ playoff_places_rel' = EmptyDict
    /\ consolation_places_rel' = EmptyDict
    /\ final_places' = EmptyDict
    /\ next_place' = 0
    /\ UNCHANGED <<leagues_done, overview_rows, written, resolver_vars,
                   season_vars, sync_vars>>

\* lines 290-292: if not team_keys: continue
SkipLeague ==
    /\ pc = "loop"
    /\ leagues_done < NumLeagues
    /\ \E lg \in LeagueInputs : team_keys(lg) = {}
    /\ leagues_done' = leagues_done + 1
    /\ UNCHANGED <<league, hash_order, pc, playoff_places_rel,
                   consolation_places_rel, final_places, next_place,
                   overview_rows, written, resolver_vars, season_vars, sync_vars>>

\* lines 294-493 raise: the exception leaves export_league_overview
MetricsFail ==
    /\ pc = "metrics"
    /\ MetricsRaise(league, hash_order)
    /\ pc' = "raised"
    /\ UNCHANGED <<leagues_done, league, hash_order, playoff_places_rel,
                   consolation_places_rel, final_places, next_place,
                   overview_rows, written, resolver_vars, season_vars, sync_vars>>

\* lines 294-493 complete
MetricsDone ==
    /\ pc = "metrics"
    /\ ~MetricsRaise(league, hash_order)
    /\ pc' = "brackets"
    /\ UNCHANGED <<leagues_done, league, hash_order, playoff_places_rel,
                   consolation_places_rel, final_places, next_place,
                   overview_rows, written, resolver_vars, season_vars, sync_vars>>

\* lines 624-642
ComputeBracketPlaces ==
    /\ pc = "brackets"
    /\ playoff_places_rel' =
        compute_bracket_places(playoff_rounds(league), RankKey(league), hash_order)
    /\ consolation_places_rel' =
        compute_bracket_places(consolation_rounds(league), RankKey(league),
                               hash_order)
    /\ pc' = "copy"
    /\ UNCHANGED <<leagues_done, league, hash_order, final_places, next_place,
                   overview_rows, written, resolver_vars, season_vars, sync_vars>>

\* lines 644-648
CopyPlayoffPlaces ==
    /\ pc = "copy"
    /\ final_places' = playoff_places_rel
    /\ next_place' = MaxValue(playoff_places_rel) + 1
    /\ pc' = "merge"
    /\ UNCHANGED <<leagues_done, league, hash_order, playoff_places_rel,
                   consolation_places_rel, overview_rows, written,
                   resolver_vars, season_vars, sync_vars>>

\* lines 649-652
MergeConsolationPlaces ==
    /\ pc = "merge"
    /\ final_places' =
        MergeConsolation(final_places, consolation_places_rel, next_place)
    /\ next_place' =
        NextPlaceAfterMerge(final_places', consolation_places_rel, next_place)
    /\ pc' = "remaining"
    /\ UNCHANGED <<leagues_done, league, hash_order, playoff_places_rel,
                   consolation_places_rel, overview_rows, written,
                   resolver_vars, season_vars, sync_vars>>

\* lines 654-658
AppendRemainingTeams ==
    /\ pc = "remaining"
    /\ final_places' = AppendRemaining(final_places, next_place, league, hash_order)
    /\ next_place' = next_place
        + Cardinality(team_keys(league) \ DOMAIN final_places)
    /\ pc' = "row"
    /\ UNCHANGED <<leagues_done, league, hash_order, playoff_places_rel,
                   consolation_places_rel, overview_rows, written,
                   resolver_vars, season_vars, sync_vars>>

\* lines 672-764: the row of this league-season, whose final_placements are
\* final_places, is appended; the locals of the pass are dropped as the loop
\* moves on
AppendRow ==
    /\ pc = "row"
    /\ overview_rows' = Append(overview_rows, leagues_done + 1)
    /\ leagues_done' = leagues_done + 1
    /\ pc' = "loop"
    /\ league' = NoLeague
    /\ hash_order' = TableOrder
    /\ playoff_places_rel' = EmptyDict
    /\ consolation_places_rel' = EmptyDict
    /\ final_places' = EmptyDict
    /\ next_place' = 0
    /\ UNCHANGED <<written, resolver_vars, season_vars, sync_vars>>

\* lines 766-767
WriteOutput ==
    /\ pc = "loop"
    /\ leagues_done = NumLeagues
    /\ written' = TRUE
    /\ pc' = "done"
    /\ UNCHANGED <<leagues_done, league, hash_order, playoff_places_rel,
                   consolation_places_rel, final_places, next_place,
                   overview_rows, resolver_vars, season_vars, sync_vars>>

Init ==
    /\ InitRun
    /\ InitSeasonVars
    /\ InitSyncVars
    /\ teams_arg = <<>>
    /\ result = NoResult
    /\ called = FALSE

Next ==
    \/ NextLeague
    \/ SkipLeague
    \/ MetricsFail
    \/ MetricsDone
    \/ ComputeBracketPlaces
    \/ CopyPlayoffPlaces
    \/ MergeConsolationPlaces
    \/ AppendRemainingTeams
    \/ AppendRow
    \/ WriteOutput

Spec == Init /\ [][Next]_vars

----------------------------------------------------------------------------
(* Specification of the resolver alone: every pair of loaded entries *)

ResolverArgs ==
    { <<LoadEntry("A", pa, sa), LoadEntry("B", pb, sb)>> :
        pa \in RawPoints, pb \in RawPoints,
        sa \in StatusTokens, sb \in StatusTokens }

InitResolver ==
    /\ teams_arg \in ResolverArgs
    /\ result = NoResult
    /\ called = FALSE
    /\ InitRun
    /\ InitSeasonVars
    /\ InitSyncVars

CallMatchupResult ==
    /\ ~called
    /\ result' = _matchup_result(teams_arg)
    /\ called' = TRUE
    /\ UNCHANGED <<teams_arg, run_vars, season_vars, sync_vars>>

NextResolver == CallMatchupResult

SpecResolver == InitResolver /\ [][NextResolver]_vars

----------------------------------------------------------------------------
(* Specification of one league-season through export_league_summary and the
   season metrics and bracket builder of export_league_overview *)

InitSeason ==
    /\ league \in SeasonInputs
    /\ pc = "summary"
    /\ hash_order \in SeasonOrders
    /\ leagues_done = 0
    /\ playoff_places_rel = EmptyDict
    /\ consolation_places_rel = EmptyDict
    /\ final_places = EmptyDict
    /\ next_place = 0
    /\ overview_rows = <<>>
    /\ written = FALSE
    /\ teams_arg = <<>>
    /\ result = NoResult
    /\ called = FALSE
    /\ cursor = 1
    /\ records = [t \in league.team_info |-> ZeroRecord]
    /\ week_team_points = EmptyDict
    /\ points_by_team = EmptyDict
    /\ total_points = 0
    /\ margins = <<>>
    /\ median_wins = EmptyDict
    /\ record_map = EmptyDict
    /\ total_games = 0
    /\ upset_games = 0
    /\ playoff_bracket = <<>>
    /\ consolation_bracket = <<>>
    /\ gap_value = NoneNum
    /\ gap_team_key = NULL
    /\ points_to_date = EmptyDict
    /\ playoff_weeks_in_spot = EmptyDict
    /\ playoff_bubble = NoBubble
    /\ InitSyncVars

\* export_league_summary lines 146-173: one matchup of the loop
SummaryMatchup ==
    /\ pc = "summary"
    /\ cursor <= Len(MatchupList(league))
    /\ records' = SummaryStep(records, MatchupList(league)[cursor])
    /\ cursor' = cursor + 1
    /\ UNCHANGED <<week_team_points, points_by_team, total_points, margins,
                   median_wins, record_map, total_games, upset_games,
                   playoff_bracket, consolation_bracket, metric_vars, run_vars,
                   resolver_vars, sync_vars>>

\* the summary loop ends; export_league_overview reaches line 303 for a
\* league-season that has team keys
SummaryDone ==
    /\ pc = "summary"
    /\ cursor > Len(MatchupList(league))
    /\ team_keys(league) # {}
    /\ pc' = "accumulate"
    /\ cursor' = 1
    /\ UNCHANGED <<records, week_team_points, points_by_team, total_points,
                   margins, median_wins, record_map, total_games, upset_games,
                   playoff_bracket, consolation_bracket, metric_vars, resolver_vars, sync_vars,
                   leagues_done, league, hash_order, playoff_places_rel,
                   consolation_places_rel, final_places, next_place,
                   overview_rows, written>>

\* lines 303-325: one matchup of the accumulation loop
AccumulateMatchup ==
    /\ pc = "accumulate"
    /\ cursor <= Len(MatchupList(league))
    /\ LET m == MatchupList(league)[cursor]
           items == ScoredItems(m.teams)
       IN  IF SkippedAsPlayoff(m.meta)
           THEN UNCHANGED <<week_team_points, points_by_team, total_points,
                            margins>>
           ELSE /\ week_team_points' =
                    IF items = <<>> THEN week_team_points
                    ELSE IF m.week \in DOMAIN week_team_points
                    THEN [week_team_points EXCEPT ![m.week] = @ \o items]
                    ELSE week_team_points @@ (m.week :> items)
                /\ points_by_team' = AddPoints(points_by_team, items)
                /\ total_points' = total_points + SumPoints(items)
                /\ margins' = margins \o MarginOf(m.teams)
    /\ cursor' = cursor + 1
    /\ UNCHANGED <<records, median_wins, record_map, total_games, upset_games,
                   playoff_bracket, consolation_bracket, metric_vars, run_vars,
                   resolver_vars, sync_vars>>

\* the accumulation loop ends
AccumulateDone ==
    /\ pc = "accumulate"
    /\ cursor > Len(MatchupList(league))
    /\ pc' = "median"
    /\ cursor' = 1
    /\ UNCHANGED <<records, week_team_points, points_by_team, total_points,
                   margins, median_wins, record_map, total_games, upset_games,
                   playoff_bracket, consolation_bracket, metric_vars, resolver_vars, sync_vars,
                   leagues_done, league, hash_order, playoff_places_rel,
                   consolation_places_rel, final_places, next_place,
                   overview_rows, written>>

\* the weeks of week_team_points in the order the loop of line 344 visits them
MedianWeeks == SortedWeeks(DOMAIN week_team_points)

\* lines 344-351: one week of the median loop
MedianWeek ==
    /\ pc = "median"
    /\ cursor <= Len(MedianWeeks)
    /\ LET items == week_team_points[MedianWeeks[cursor]]
       IN  median_wins' =
               MedianWeekLoop(median_wins, items,
                              median_doubled(PointsList(items)))
    /\ cursor' = cursor + 1
    /\ UNCHANGED <<records, week_team_points, points_by_team, total_points,
                   margins, record_map, total_games, upset_games,
                   playoff_bracket, consolation_bracket, metric_vars, run_vars,
                   resolver_vars, sync_vars>>

\* lines 353-383: the median loop ends, the gap loop does not raise, and
\* record_map starts with a zero record for every team key
MedianDone ==
    /\ pc = "median"
    /\ cursor > Len(MedianWeeks)
    /\ ~GapRaises(league)
    /\ record_map' =
        [t \in team_keys(league) |-> [wins |-> 0, losses |-> 0, ties |-> 0]]
    /\ LET best == GapLoop(NoGap, SetToList(team_keys(league), hash_order),
                            median_wins, league)
       IN  /\ gap_value' = best.gap_value
           /\ gap_team_key' = best.gap_team_key
    /\ pc' = "weeks"
    /\ cursor' = 1
    /\ UNCHANGED <<points_to_date, playoff_weeks_in_spot, playoff_bubble,
                   records, week_team_points, points_by_team, total_points,
                   margins, median_wins, total_games, upset_games,
                   playoff_bracket, consolation_bracket, resolver_vars, sync_vars,
                   leagues_done, league, hash_order, playoff_places_rel,
                   consolation_places_rel, final_places, next_place,
                   overview_rows, written>>

\* lines 385-430: one week of the record loop, with the points to date and
\* the weeks in a playoff spot
RecordWeek ==
    /\ pc = "weeks"
    /\ cursor <= Len(RecordWeeks(league))
    /\ LET matchups == WeekMatchups(league, RecordWeeks(league)[cursor])
       IN  /\ ~WeekRaises(record_map, matchups)
           /\ total_games' = total_games + WeekGames(record_map, matchups).games
           /\ upset_games' = upset_games + WeekGames(record_map, matchups).upsets
           /\ record_map' = RecordWeekLoop(record_map, matchups)
           /\ points_to_date' =
                AddPoints(points_to_date,
                          Get(week_team_points, RecordWeeks(league)[cursor], <<>>))
           /\ playoff_weeks_in_spot' =
                CreditSpots(playoff_weeks_in_spot,
                            standings_snapshot(SetToList(team_keys(league),
                                                         hash_order),
                                               RecordWeekLoop(record_map, matchups),
                                               points_to_date'),
                            playoff_count(league))
    /\ cursor' = cursor + 1
    /\ UNCHANGED <<gap_value, gap_team_key, playoff_bubble, records, week_team_points, points_by_team, total_points,
                   margins, median_wins, playoff_bracket, consolation_bracket,
                   run_vars, resolver_vars, sync_vars>>

\* an exception leaves export_league_overview: the gap loop (line 368), the
\* record loop (lines 395-413) or the points gap (lines 460-463) raises
SeasonFail ==
    /\ \/ pc = "median" /\ cursor > Len(MedianWeeks) /\ GapRaises(league)
       \/ /\ pc = "weeks"
          /\ cursor <= Len(RecordWeeks(league))
          /\ WeekRaises(record_map,
                        WeekMatchups(league, RecordWeeks(league)[cursor]))
       \/ /\ pc = "weeks"
          /\ cursor > Len(RecordWeeks(league))
          /\ PointsGapRaises(league, hash_order)
    /\ pc' = "raised"
    /\ UNCHANGED <<season_vars, resolver_vars, sync_vars, leagues_done, league,
                   hash_order, playoff_places_rel, consolation_places_rel,
                   final_places, next_place, overview_rows, written>>

\* lines 432-631: the record loop ends, the playoff bubble is computed and
\* both brackets are built
BuildBrackets ==
    /\ pc = "weeks"
    /\ cursor > Len(RecordWeeks(league))
    /\ ~PointsGapRaises(league, hash_order)
    /\ playoff_bracket' = playoff_rounds(league)
    /\ consolation_bracket' = consolation_rounds(league)
    /\ playoff_bubble' =
        [playoff_teams |-> playoff_count(league),
         points_gap |-> points_gap(league, hash_order),
         last_seed |-> playoff_cutoff(league, hash_order),
         first_out |-> first_out(league)]
    /\ pc' = "built"
    /\ UNCHANGED <<gap_value, gap_team_key, points_to_date,
                   playoff_weeks_in_spot, cursor, records, week_team_points, points_by_team,
                   total_points, margins, median_wins, record_map, total_games,
                   upset_games, resolver_vars, sync_vars, leagues_done, league,
                   hash_order, playoff_places_rel, consolation_places_rel,
                   final_places, next_place, overview_rows, written>>

NextSeason ==
    \/ SummaryMatchup
    \/ SummaryDone
    \/ AccumulateMatchup
    \/ AccumulateDone
    \/ MedianWeek
    \/ MedianDone
    \/ RecordWeek
    \/ SeasonFail
    \/ BuildBrackets

SpecSeason == InitSeason /\ [][NextSeason]_vars

----------------------------------------------------------------------------
(* sync_all.py: fetch_xml, sync_league as a sequence of fetch_xml calls, and
   main with its progress file *)

\* runs of sync_all.main in one behaviour
MaxRuns == 2

\* status codes of the responses of api_get_response
HttpStatuses == {200, 400, 404, 500}

\* the argument allow_statuses of fetch_xml: not given (None) or a set
NoAllow == [given |-> FALSE, statuses |-> {}]

Allow(S) == [given |-> TRUE, statuses |-> S]

\* lines 76-77: if allow_statuses is None: allow_statuses = {200}
allowed(allow_statuses) ==
    IF allow_statuses.given THEN allow_statuses.statuses ELSE {200}

\* lines 76-84 with the allowed non-200 status falling through to the body
FetchOutcome_allowed_is_body(status, allow_statuses) ==
    IF status \notin allowed(allow_statuses) THEN "RuntimeError" ELSE "body"

\* lines 76-84: how fetch_xml ends for a response of the given status
FetchOutcome(status, allow_statuses) ==
    IF status \notin allowed(allow_statuses) THEN "RuntimeError"
    ELSE IF status # 200 THEN "None"
    ELSE "body"

\* raw_store.save_raw_xml: the file name starts with the counter and ends
\* with the time stamp, which tells the files of two runs apart
FileOf(value, run) == [counter |-> value, run |-> run]

\* the record of lines 63-72, reduced to http_status and file_path
RawRecord(status, file_path) == [http_status |-> status, file_path |-> file_path]

\* the fetch_xml call of discover_leagues (lines 141, 155)
DiscoverCall == [endpoint |-> "games", allow_statuses |-> NoAllow]

\* the fetch_xml calls of sync_league, one of each kind in the order of the
\* code: league, settings, teams and standings (lines 193-249), draftresults
\* (line 264), scoreboard (line 288), roster and stats (lines 325-365)
SyncPhases ==
    << [endpoint |-> "league", allow_statuses |-> NoAllow],
       [endpoint |-> "draftresults", allow_statuses |-> Allow({200, 404})],
       [endpoint |-> "scoreboard", allow_statuses |-> NoAllow],
       [endpoint |-> "roster", allow_statuses |-> Allow({200, 400, 404})] >>

\* the fetch_xml call in progress
CurrentCall == IF sync_pc = "discover" THEN DiscoverCall ELSE SyncPhases[phase]

\* a league as returned by discover_leagues
SyncLeague(key, season) == [league_key |-> key, season |-> season]

\* the lists discover_leagues can return: nothing, or the leagues of three
\* seasons in one of two orders
DiscoveredOptions ==
    { <<>>,
      <<SyncLeague("K19", 2019), SyncLeague("K20", 2020),
        SyncLeague("K21", 2021)>>,
      <<SyncLeague("K21", 2021), SyncLeague("K19", 2019),
        SyncLeague("K20", 2020)>> }

\* lines 493-496: sorted(leagues, key=lambda item: int(item.get("season") or 0))
SortBySeason(ls) == StableSort(ls, [l \in Range(ls) |-> l.season])

\* the command lines of a run
ArgOptions ==
    { NoArgs,
      [NoArgs EXCEPT !.resume = TRUE],
      [NoArgs EXCEPT !.skip_existing = TRUE],
      [NoArgs EXCEPT !.resume = TRUE, !.skip_existing = TRUE],
      [NoArgs EXCEPT !.only = "K20"],
      [NoArgs EXCEPT !.start_at = "K20"],
      [NoArgs EXCEPT !.start_after = "K19"],
      [NoArgs EXCEPT !.resume = TRUE, !.only = "K19"] }

\* lines 498-501: --resume puts last_league_key of the progress file in
\* args.start_after
ResumeArgs(a, last_league_key) ==
    IF a.resume /\ last_league_key # NULL
    THEN [a EXCEPT !.start_after = last_league_key]
    ELSE a

\* lines 503-504
OnlyLeague(ls, key) == SelectSeq(ls, LAMBDA l : l.league_key = key)

\* lines 505-513
RECURSIVE StartAt(_, _)
StartAt(ls, key) ==
    IF ls = <<>> THEN <<>>
    ELSE IF Head(ls).league_key = key THEN ls
    ELSE StartAt(Tail(ls), key)

\* lines 514-523 keeping the named league
RECURSIVE StartAfter_keeps_named(_, _)
StartAfter_keeps_named(ls, key) ==
    IF ls = <<>> THEN <<>>
    ELSE IF Head(ls).league_key = key THEN ls
    ELSE StartAfter_keeps_named(Tail(ls), key)

\* lines 514-523
RECURSIVE StartAfter(_, _)
StartAfter(ls, key) ==
    IF ls = <<>> THEN <<>>
    ELSE IF Head(ls).league_key = key THEN Tail(ls)
    ELSE StartAfter(Tail(ls), key)

\* lines 503-523
SelectLeagues(ls, a) ==
    IF a.only # NULL THEN OnlyLeague(ls, a.only)
    ELSE IF a.start_at # NULL THEN StartAt(ls, a.start_at)
    ELSE IF a.start_after # NULL THEN StartAfter(ls, a.start_after)
    ELSE ls

\* main is started: lines 474-487, ctx = SyncContext() with no file and no row
\* of its own yet, and discover_leagues makes its fetch_xml call
StartRun ==
    /\ sync_pc \in {"idle", "done", "failed"}
    /\ runs < MaxRuns
    /\ runs' = runs + 1
    /\ args' \in ArgOptions
    /\ counter' = 1
    /\ sync_pc' = "discover"
    /\ fetch_pc' = "call"
    /\ fetch_result' = "none"
    /\ sorted_leagues' = <<>>
    /\ leagues' = <<>>
    /\ synced' = <<>>
    /\ phase' = 1
    /\ raw_files' = {}
    /\ raw_responses' = <<>>
    /\ UNCHANGED <<response, progress, with_data, completed, resolver_vars,
                   run_vars, season_vars>>

\* fetch_xml lines 51-74: the response arrives, save_raw_xml writes the file
\* named after ctx.next_counter() and insert_raw_response adds the row
FetchArchive ==
    /\ fetch_pc = "call"
    /\ \E status \in HttpStatuses :
        /\ response' = status
        /\ raw_files' = raw_files \cup {FileOf(counter, runs)}
        /\ raw_responses' =
            Append(raw_responses, RawRecord(status, FileOf(counter, runs)))
    /\ counter' = counter + 1
    /\ fetch_pc' = "archived"
    /\ UNCHANGED <<sync_pc, runs, args, sorted_leagues, leagues, phase,
                   fetch_result, progress, with_data, synced, completed,
                   resolver_vars, run_vars, season_vars>>

\* fetch_xml lines 76-79: the RuntimeError leaves sync_league or
\* discover_leagues and main
FetchRaises ==
    /\ fetch_pc = "archived"
    /\ FetchOutcome(response, CurrentCall.allow_statuses) = "RuntimeError"
    /\ fetch_result' = "RuntimeError"
    /\ fetch_pc' = "none"
    /\ sync_pc' = "failed"
    /\ UNCHANGED <<runs, args, sorted_leagues, leagues, phase, response,
                   counter, raw_files, raw_responses, progress, with_data,
                   synced, completed, resolver_vars, run_vars, season_vars>>

\* fetch_xml lines 80-84: return None or the body
FetchReturns ==
    /\ fetch_pc = "archived"
    /\ FetchOutcome(response, CurrentCall.allow_statuses) # "RuntimeError"
    /\ fetch_result' = FetchOutcome(response, CurrentCall.allow_statuses)
    /\ fetch_pc' = "returned"
    /\ UNCHANGED <<sync_pc, runs, args, sorted_leagues, leagues, phase,
                   response, counter, raw_files, raw_responses, progress,
                   with_data, synced, completed, resolver_vars, run_vars,
                   season_vars>>

\* lines 488-523: discover_leagues returns, main sorts the leagues and
\* selects those of the command line, or returns when there is none
DiscoverDone ==
    /\ sync_pc = "discover"
    /\ fetch_pc = "returned"
    /\ \E found \in DiscoveredOptions :
        /\ sorted_leagues' = SortBySeason(found)
        /\ IF found = <<>>
           THEN /\ sync_pc' = "done"
                /\ UNCHANGED <<args, leagues>>
           ELSE /\ sync_pc' = "loop"
                /\ args' = ResumeArgs(args, progress)
                /\ leagues' = SelectLeagues(SortBySeason(found),
                                            ResumeArgs(args, progress))
    /\ fetch_pc' = "none"
    /\ UNCHANGED <<runs, phase, response, fetch_result, counter, raw_files,
                   raw_responses, progress, with_data, synced, completed,
                   resolver_vars, run_vars, season_vars>>

\* lines 525-533: the loop calls sync_league for the next league
BeginLeague ==
    /\ sync_pc = "loop"
    /\ leagues # <<>>
    /\ ~(args.skip_existing /\ Head(leagues).league_key \in with_data)
    /\ synced' = Append(synced, Head(leagues).league_key)
    /\ sync_pc' = "sync_league"
    /\ phase' = 1
    /\ fetch_pc' = "call"
    /\ UNCHANGED <<runs, args, sorted_leagues, leagues, response, fetch_result,
                   counter, raw_files, raw_responses, progress, with_data,
                   completed, resolver_vars, run_vars, season_vars>>

\* lines 528-530: --skip-existing and league_has_data
SkipExisting ==
    /\ sync_pc = "loop"
    /\ leagues # <<>>
    /\ args.skip_existing
    /\ Head(leagues).league_key \in with_data
    /\ leagues' = Tail(leagues)
    /\ UNCHANGED <<sync_pc, runs, args, sorted_leagues, phase, fetch_pc,
                   response, fetch_result, counter, raw_files, raw_responses,
                   progress, with_data, synced, completed, resolver_vars,
                   run_vars, season_vars>>

\* sync_league goes on to its next fetch_xml call; after the scoreboard the
\* league has teams, standings and matchups rows
NextPhase ==
    /\ sync_pc = "sync_league"
    /\ fetch_pc = "returned"
    /\ phase < Len(SyncPhases)
    /\ with_data' =
        IF SyncPhases[phase].endpoint = "scoreboard"
        THEN with_data \cup {Head(leagues).league_key}
        ELSE with_data
    /\ phase' = phase + 1
    /\ fetch_pc' = "call"
    /\ UNCHANGED <<sync_pc, runs, args, sorted_leagues, leagues, response,
                   fetch_result, counter, raw_files, raw_responses, progress,
                   synced, completed, resolver_vars, run_vars, season_vars>>

\* parse_xml or a parser raises on the body fetch_xml returned; the exception
\* leaves sync_league and main
SyncLeagueRaises ==
    /\ sync_pc = "sync_league"
    /\ fetch_pc = "returned"
    /\ fetch_result = "body"
    /\ sync_pc' = "failed"
    /\ fetch_pc' = "none"
    /\ UNCHANGED <<runs, args, sorted_leagues, leagues, phase, response,
                   fetch_result, counter, raw_files, raw_responses, progress,
                   with_data, synced, completed, resolver_vars, run_vars,
                   season_vars>>

\* sync_league returns after its last fetch_xml call
SyncLeagueReturns ==
    /\ sync_pc = "sync_league"
    /\ fetch_pc = "returned"
    /\ phase = Len(SyncPhases)
    /\ completed' = completed \cup {Head(leagues).league_key}
    /\ sync_pc' = "save"
    /\ fetch_pc' = "none"
    /\ UNCHANGED <<runs, args, sorted_leagues, leagues, phase, response,
                   fetch_result, counter, raw_files, raw_responses, progress,
                   with_data, synced, resolver_vars, run_vars, season_vars>>

\* line 534 and lines 103-110: save_progress(league), then the next league
SaveProgress ==
    /\ sync_pc = "save"
    /\ progress' = Head(leagues).league_key
    /\ leagues' = Tail(leagues)
    /\ sync_pc' = "loop"
    /\ UNCHANGED <<runs, args, sorted_leagues, phase, fetch_pc, response,
                   fetch_result, counter, raw_files, raw_responses, with_data,
                   synced, completed, resolver_vars, run_vars, season_vars>>

\* line 536: the loop has visited every league
RunEnds ==
    /\ sync_pc = "loop"
    /\ leagues = <<>>
    /\ sync_pc' = "done"
    /\ UNCHANGED <<runs, args, sorted_leagues, leagues, phase, fetch_pc,
                   response, fetch_result, counter, raw_files, raw_responses,
                   progress, with_data, synced, completed, resolver_vars,
                   run_vars, season_vars>>

NextSync ==
    \/ StartRun
    \/ FetchArchive
    \/ FetchRaises
    \/ FetchReturns
    \/ DiscoverDone
    \/ BeginLeague
    \/ SkipExisting
    \/ NextPhase
    \/ SyncLeagueRaises
    \/ SyncLeagueReturns
    \/ SaveProgress
    \/ RunEnds

SpecSync == Init /\ [][NextSync]_vars

----------------------------------------------------------------------------
(* Claims about the final ranking, under Spec *)

Places(d) == {d[t] : t \in DOMAIN d}

\* the league-season in progress is the 4-team scenario
FourTeamScenario ==
    /\ league.team_info = {"A", "B", "C", "D"}
    /\ league.matchup_map = FourTeamBracket

\* C1: for the 4-team input (semifinals A beats B and C beats D, final A
\* beats C, consolation-flagged final B beats D) the emitted final
\* placements are A:1, C:2, B:3, D:4.
C1_FourTeamPlacements ==
    (pc = "row" /\ FourTeamScenario)
        => final_places = ("A" :> 1 @@ "C" :> 2 @@ "B" :> 3 @@ "D" :> 4)

\* every team of every matchup row is one of the teams of the league-season
ParticipantsAreTeams(lg) ==
    \A m \in lg.matchup_map :
        \A i \in 1 .. Len(m.teams) : m.teams[i].team_key \in team_keys(lg)

\* C2: for a league-season with N teams, whose matchups are among those
\* teams, the emitted final_place values are exactly 1 .. N, one team per
\* value.
C2_PlacesArePermutation ==
    (pc = "row" /\ ParticipantsAreTeams(league)) =>
        /\ Places(final_places) = 1 .. Cardinality(team_keys(league))
        /\ Cardinality(DOMAIN final_places) = Cardinality(team_keys(league))

\* C3: once playoff placements, offset consolation placements and remaining
\* teams are merged, no two distinct teams share a final place.
C3_NoSharedPlace ==
    pc = "row" =>
        \A t1, t2 \in DOMAIN final_places :
            t1 # t2 => final_places[t1] # final_places[t2]

\* C3 witness: a merged ranking with playoff places, consolation places of
\* teams that the playoff bracket placed too, and a remaining team.
C3_Witness ==
    /\ pc = "row"
    /\ DOMAIN playoff_places_rel \cap DOMAIN consolation_places_rel # {}
    /\ team_keys(league) \ (DOMAIN playoff_places_rel
                            \cup DOMAIN consolation_places_rel) # {}
    /\ Cardinality(DOMAIN final_places) = 5

\* C4: placement is append-only: a team that has a place in final_places
\* keeps that place in every later step of the same pass.
C4_AppendOnly ==
    [][\A t \in DOMAIN final_places :
            t \in DOMAIN final_places' => final_places'[t] = final_places[t]]_vars

\* C5: the placements of a pass do not depend on the order in which the
\* sets of team keys are iterated: every iteration order yields the
\* placements this pass produced.
C5_OrderIndependent ==
    pc = "row" =>
        \A order \in HashOrders : FinalPlaces(league, order) = final_places

\* C6: when the pass of one league-season raises, the rows already produced
\* for the other league-seasons of the run are still written.
C6_FailureIsolated ==
    (pc \in {"done", "raised"} /\ overview_rows # <<>>) => written

\* C7: missing or partial data (a matchup participant without a roster row,
\* a standings row without points_for) never makes the pass raise.
C7_MissingDataNotFatal ==
    pc # "raised"

\* the teams of the league-season that have no standings row and appear in
\* no round of either bracket
Unplaced(lg) ==
    {t \in team_keys(lg) :
        /\ t \notin DOMAIN lg.standings_rows
        /\ t \notin BracketTeams(playoff_rounds(lg))
        /\ t \notin BracketTeams(consolation_rounds(lg))}

\* C17: when one team of a league-season with N teams, whose matchups are
\* among those teams, has no standings row and appears in no bracket, that
\* team's final place is N.
C17_UnplacedTeamIsLast ==
    (/\ pc = "row"
     /\ ParticipantsAreTeams(league)
     /\ Cardinality(Unplaced(league)) = 1)
        => \A t \in Unplaced(league) :
                final_places[t] = Cardinality(team_keys(league))

\* C18: no row is appended for a league-season whose team roster is empty.
C18_EmptyRosterSkipped ==
    [][overview_rows' # overview_rows => league.team_info # {}]_vars

----------------------------------------------------------------------------
(* Claims about _matchup_result, under SpecResolver *)

\* spellings of the tokens that compare equal to "tie" and "win" when case
\* is ignored
TieTokens == {"tie", "Tie", "TIE"}

WinTokens == {"win", "Win", "WIN"}

\* C8: when either entry's win-status token is "tie", in any case, the
\* result is a tie, whatever the other status and the points.
C8_TieStatusGivesTie ==
    (called /\ (teams_arg[1].win_status \in TieTokens
                \/ teams_arg[2].win_status \in TieTokens))
        => result = TieResult

\* C8 witness: "Tie" against "win" with a null score returns a tie.
C8_Witness ==
    /\ called
    /\ teams_arg[1].win_status = "Tie"
    /\ teams_arg[2].win_status = "win"
    /\ IsNone(teams_arg[1].points)
    /\ result = TieResult

\* C9: when no entry has status "tie" and exactly one has status "win", that
\* entry's team is the winner and the other the loser, whatever the points.
C9_WinStatusDecides ==
    (/\ called
     /\ teams_arg[1].win_status \notin TieTokens
     /\ teams_arg[2].win_status \notin TieTokens)
        => /\ (teams_arg[1].win_status \in WinTokens
               /\ teams_arg[2].win_status \notin WinTokens)
                => result = Decided(teams_arg[1].team_key, teams_arg[2].team_key)
           /\ (teams_arg[2].win_status \in WinTokens
               /\ teams_arg[1].win_status \notin WinTokens)
                => result = Decided(teams_arg[2].team_key, teams_arg[1].team_key)

\* C9 witness: the second entry is declared the winner with fewer points.
C9_Witness ==
    /\ called
    /\ teams_arg[1].win_status = "loss"
    /\ teams_arg[2].win_status = "WIN"
    /\ teams_arg[1].points = Some(2)
    /\ teams_arg[2].points = Some(0)
    /\ result = Decided("B", "A")

\* C10: when no entry has status "tie" or "win", the points decide: None if
\* a score is null, a tie on equal scores, else the greater score wins.
C10_PointsDecide ==
    (/\ called
     /\ teams_arg[1].win_status \notin TieTokens \cup WinTokens
     /\ teams_arg[2].win_status \notin TieTokens \cup WinTokens)
        => LET a == teams_arg[1]
               b == teams_arg[2]
           IN  /\ (IsNone(a.points) \/ IsNone(b.points)) => result = NoResult
               /\ (~IsNone(a.points) /\ ~IsNone(b.points)) =>
                    /\ a.points[1] = b.points[1] => result = TieResult
                    /\ a.points[1] > b.points[1]
                        => result = Decided(a.team_key, b.team_key)
                    /\ a.points[1] < b.points[1]
                        => result = Decided(b.team_key, a.team_key)

\* C10 witness: equal scores with empty statuses return a tie.
C10_Witness ==
    /\ called
    /\ teams_arg[1].win_status = ""
    /\ teams_arg[2].win_status = ""
    /\ teams_arg[1].points = Some(1)
    /\ teams_arg[2].points = Some(1)
    /\ result = TieResult

\* C11: when both entries carry status "win" and neither "tie", the status
\* rule does not fire: the outcome is the points comparison (None if a score
\* is null, a tie on equal scores, else the greater score wins), whatever
\* the order of the entries.
C11_BothWinUsesPoints ==
    (/\ called
     /\ teams_arg[1].win_status \in WinTokens
     /\ teams_arg[2].win_status \in WinTokens)
        => LET a == teams_arg[1]
               b == teams_arg[2]
           IN  /\ (IsNone(a.points) \/ IsNone(b.points)) => result = NoResult
               /\ (~IsNone(a.points) /\ ~IsNone(b.points)) =>
                    /\ a.points[1] = b.points[1] => result = TieResult
                    /\ a.points[1] > b.points[1]
                        => result = Decided(a.team_key, b.team_key)
                    /\ a.points[1] < b.points[1]
                        => result = Decided(b.team_key, a.team_key)

----------------------------------------------------------------------------
(* Claims about the regular-season records and metrics, under SpecSeason *)

\* the sum of field f over the records of d
RECURSIVE SumOver(_, _)
SumOver(d, f) ==
    IF DOMAIN d = {} THEN 0
    ELSE LET t == CHOOSE x \in DOMAIN d : TRUE
         IN  d[t][f] + SumOver([x \in DOMAIN d \ {t} |-> d[x]], f)

\* C12: after every processed matchup of export_league_summary and after
\* every week of the record loop of export_league_overview, the wins summed
\* over all teams equal the losses summed over all teams and the summed tie
\* counts are even.
C12_RecordsBalance ==
    /\ SumOver(records, "wins") = SumOver(records, "losses")
    /\ SumOver(records, "ties") % 2 = 0
    /\ SumOver(record_map, "wins") = SumOver(record_map, "losses")
    /\ SumOver(record_map, "ties") % 2 = 0

\* C12 witness: both loops have finished a season with a tied and a
\* decisive game.
C12_Witness ==
    /\ pc = "built"
    /\ SumOver(records, "wins") >= 1
    /\ SumOver(records, "ties") = 2
    /\ SumOver(record_map, "wins") >= 1
    /\ SumOver(record_map, "ties") = 2
    /\ cursor > 2

\* wins, losses and ties that a step credits to team t
Credit(before, after, t) ==
    [wins |-> after[t].wins - Get(before, t, ZeroRecord).wins,
     losses |-> after[t].losses - Get(before, t, ZeroRecord).losses,
     ties |-> after[t].ties - Get(before, t, ZeroRecord).ties]

\* C13: for every matchup that export_league_summary counts, the win, loss
\* or tie credited to its two teams is the outcome that _matchup_result
\* returns for the same two entries.
C13_SummaryFollowsResolver ==
    [][(/\ pc = "summary"
        /\ cursor <= Len(MatchupList(league))
        /\ SummaryCounts(MatchupList(league)[cursor]))
        => LET m == MatchupList(league)[cursor]
               r == _matchup_result(m.teams)
           IN  /\ r.kind # "None"
               /\ r.kind = "decided" =>
                    /\ Credit(records, records', r.winner)
                        = [wins |-> 1, losses |-> 0, ties |-> 0]
                    /\ Credit(records, records', r.loser)
                        = [wins |-> 0, losses |-> 1, ties |-> 0]
               /\ r.kind = "tie" =>
                    \A i \in 1 .. 2 :
                        Credit(records, records', m.teams[i].team_key)
                            = [wins |-> 0, losses |-> 0, ties |-> 1]]_vars

\* every team has at most one recorded score among the items of a week
OneScorePerTeam(items) ==
    \A i, j \in 1 .. Len(items) : items[i][1] = items[j][1] => i = j

\* C14: in the step of the median loop for a week in which every team has
\* one recorded score, a team gains exactly one median win if its score is
\* greater than or equal to the median of the week's scores and none
\* otherwise; for the scores 100, 90, 80, 70, 60, 50 exactly the top three
\* teams have a median win after the loop.
C14_MedianWins ==
    [][/\ (/\ pc = "median"
           /\ cursor <= Len(MedianWeeks)
           /\ OneScorePerTeam(week_team_points[MedianWeeks[cursor]]))
            => LET items == week_team_points[MedianWeeks[cursor]]
                   med2 == median_doubled(PointsList(items))
               IN  \A t \in DOMAIN median_wins' \cup TeamKeys :
                       Get(median_wins', t, 0) - Get(median_wins, t, 0) =
                           IF \E i \in 1 .. Len(items) :
                                   items[i][1] = t /\ 2 * items[i][2] >= med2
                           THEN 1 ELSE 0
       /\ (league = MedianScenario /\ pc' = "weeks")
            => median_wins' = ("A" :> 1 @@ "B" :> 1 @@ "C" :> 1)]_vars

\* C14 witness: the median loop has run a week of four scores of which three
\* equal the median, and every team of that week has a median win.
C14_Witness ==
    /\ pc = "weeks"
    /\ RegularWeek \in DOMAIN week_team_points
    /\ PointsList(week_team_points[RegularWeek]) = <<1, 1, 2, 1>>
    /\ \A t \in {"A", "B", "C", "D"} : Get(median_wins, t, 0) >= 1

\* the matchups of a list that are not flagged is_playoffs
RegularOnly(matchups) == SelectSeq(matchups, LAMBDA m : m.meta.is_playoffs # 1)

\* C15: a matchup flagged is_playoffs feeds nothing into the regular-season
\* metrics: the accumulation step of such a matchup leaves the weekly point
\* lists, point totals and margins as they are, and a week of the record
\* loop changes the running records and the game and upset counts as its
\* non-playoff matchups alone would.
C15_PlayoffFeedsNothing ==
    [][/\ (/\ pc = "accumulate"
           /\ cursor <= Len(MatchupList(league))
           /\ MatchupList(league)[cursor].meta.is_playoffs = 1)
            => UNCHANGED <<week_team_points, points_by_team, total_points,
                           margins>>
       /\ (pc = "weeks" /\ pc' = "weeks" /\ cursor' = cursor + 1)
            => LET regular ==
                     RegularOnly(WeekMatchups(league, RecordWeeks(league)[cursor]))
               IN  /\ record_map' = RecordWeekLoop(record_map, regular)
                   /\ total_games' =
                        total_games + WeekGames(record_map, regular).games
                   /\ upset_games' =
                        upset_games + WeekGames(record_map, regular).upsets]_vars

\* the matchup entries of the rounds of a bracket
BracketEntries(rounds) ==
    UNION {{rounds[i].matchups[j] : j \in 1 .. Len(rounds[i].matchups)} :
            i \in 1 .. Len(rounds)}

\* C16: a matchup whose number of entries is not 2 is excluded from all
\* analysis: its accumulation step leaves the weekly point lists, point
\* totals and margins as they are, and no round of the two brackets holds a
\* matchup with other than two teams.
C16_NonPairExcluded ==
    [][/\ (/\ pc = "accumulate"
           /\ cursor <= Len(MatchupList(league))
           /\ Len(MatchupList(league)[cursor].teams) # 2)
            => UNCHANGED <<week_team_points, points_by_team, total_points,
                           margins>>
       /\ pc' = "built"
            => \A e \in BracketEntries(playoff_bracket')
                        \cup BracketEntries(consolation_bracket') :
                    Len(e.teams) = 2]_vars

----------------------------------------------------------------------------
(* Claims about the bracket builder, under SpecSeason *)

\* a two-team matchup whose matchups row is flagged is_playoffs
TwoTeamPlayoff(m) ==
    m.meta.present /\ m.meta.is_playoffs = 1 /\ Len(m.teams) = 2

\* the positions <<round, index>> at which rounds hold matchup m: the round
\* of week m.week, the entry with m's matchup_id
Occurrences(rounds, m) ==
    UNION {{<<i, j>> : j \in {k \in 1 .. Len(rounds[i].matchups) :
                                /\ rounds[i].week = m.week
                                /\ rounds[i].matchups[k].matchup_id
                                    = m.matchup_id}} :
            i \in 1 .. Len(rounds)}

\* the bracket entries of matchup m in both brackets
EntriesOf(m) ==
    {playoff_bracket[x[1]].matchups[x[2]] : x \in Occurrences(playoff_bracket, m)}
    \cup {consolation_bracket[x[1]].matchups[x[2]] :
            x \in Occurrences(consolation_bracket, m)}

\* C19: in the built brackets, a matchup with a declared winner has that
\* team as winner; a matchup without one has the winner and loser that
\* _matchup_result returns for its two entries (both null when it returns a
\* tie or None).
C19_BracketWinnerIsResolved ==
    pc = "built" =>
        \A m \in league.matchup_map :
            TwoTeamPlayoff(m) =>
                \A e \in EntriesOf(m) :
                    LET r == _matchup_result(m.teams)
                    IN  IF m.meta.winner_team_key \notin {NULL, ""}
                        THEN e.winner_team_key = m.meta.winner_team_key
                        ELSE IF r.kind = "decided"
                        THEN /\ e.winner_team_key = r.winner
                             /\ e.loser_team_key = r.loser
                        ELSE /\ e.winner_team_key = NULL
                             /\ e.loser_team_key = NULL

\* C20: every two-team matchup flagged is_playoffs is held exactly once, in
\* the round of its week, by the playoff bracket if it is not consolation
\* and by the consolation bracket otherwise, and by no round of the other
\* bracket; an entry without a winner has no loser and no team marked
\* is_winner, and an entry with a winner has a loser that is a participant
\* other than the winner.
C20_BracketMembership ==
    pc = "built" =>
        \A m \in league.matchup_map :
            TwoTeamPlayoff(m) =>
                /\ Cardinality(Occurrences(playoff_bracket, m)) =
                        IF m.meta.is_consolation # 1 THEN 1 ELSE 0
                /\ Cardinality(Occurrences(consolation_bracket, m)) =
                        IF m.meta.is_consolation = 1 THEN 1 ELSE 0
                /\ \A e \in EntriesOf(m) :
                    /\ e.winner_team_key = NULL =>
                        /\ e.loser_team_key = NULL
                        /\ \A i \in 1 .. Len(e.teams) : ~e.teams[i].is_winner
                    /\ e.winner_team_key # NULL =>
                        /\ e.loser_team_key # e.winner_team_key
                        /\ e.loser_team_key
                            \in {m.teams[i].team_key : i \in 1 .. 2}

\* C20 witness: a semifinal without a resolvable winner is in the first
\* playoff round with winner and loser null, the consolation game of the
\* same week is in the consolation bracket, and the final is in the second
\* playoff round with winner A and loser C.
C20_Witness ==
    /\ pc = "built"
    /\ Len(playoff_bracket) = 2
    /\ Len(consolation_bracket) = 1
    /\ playoff_bracket[1].week = SemiWeek
    /\ playoff_bracket[1].matchups[1].winner_team_key = NULL
    /\ playoff_bracket[1].matchups[1].loser_team_key = NULL
    /\ consolation_bracket[1].matchups[1].winner_team_key = "C"
    /\ playoff_bracket[2].week = FinalWeek
    /\ playoff_bracket[2].matchups[1].winner_team_key = "A"
    /\ playoff_bracket[2].matchups[1].loser_team_key = "C"

----------------------------------------------------------------------------
(* Claims about compute_bracket_places and the merge, under Spec *)

\* the entries of the final round of a bracket
FinalEntries(rounds) == Range(rounds[Len(rounds)].matchups)

\* the winners and the losers of the round before the final round
WinnersBefore(rounds) ==
    IF Len(rounds) < 2 THEN {}
    ELSE {e.winner_team_key : e \in Range(rounds[Len(rounds) - 1].matchups)}
         \ {NULL}

LosersBefore(rounds) ==
    IF Len(rounds) < 2 THEN {}
    ELSE {e.loser_team_key : e \in Range(rounds[Len(rounds) - 1].matchups)}
         \ {NULL}

\* the championship match: both teams won in the preceding round, or there
\* is no preceding round and the final round has one matchup
IsChampionship(rounds, e) ==
    \/ /\ Len(rounds) >= 2
       /\ Len(e.teams) = 2
       /\ MatchupTeamKeys(e) \subseteq WinnersBefore(rounds)
    \/ /\ Len(rounds) = 1
       /\ Len(rounds[1].matchups) = 1

\* the third-place match: both teams lost in the preceding round
IsThirdPlace(rounds, e) ==
    /\ Len(rounds) >= 2
    /\ Len(e.teams) = 2
    /\ MatchupTeamKeys(e) \subseteq LosersBefore(rounds)
    /\ ~IsChampionship(rounds, e)

\* the ranks 1 to 4 of placements follow the championship and the
\* third-place match of rounds
TopFourFollowStructure(rounds, placements) ==
    LET champs == {e \in FinalEntries(rounds) : IsChampionship(rounds, e)}
        thirds == {e \in FinalEntries(rounds) : IsThirdPlace(rounds, e)}
        by_champ == UNION {{c.winner_team_key, c.loser_team_key} : c \in champs}
    IN  (Cardinality(champs) <= 1 /\ Cardinality(thirds) <= 1) =>
            /\ \A c \in champs :
                /\ c.winner_team_key # NULL => placements[c.winner_team_key] = 1
                /\ c.loser_team_key # NULL => placements[c.loser_team_key] = 2
            /\ \A t \in thirds :
                /\ (t.winner_team_key # NULL /\ t.winner_team_key \notin by_champ)
                    => placements[t.winner_team_key] = 3
                /\ (t.loser_team_key # NULL /\ t.loser_team_key \notin by_champ)
                    => placements[t.loser_team_key] = 4

\* C21: in the placements of each bracket, the winner and loser of the
\* championship match (both teams won in the preceding round, or the only
\* matchup of a bracket without a preceding round) have ranks 1 and 2 and
\* the winner and loser of the third-place match (both teams lost in the
\* preceding round) have ranks 3 and 4, a null or already placed team being
\* skipped.
C21_TopFourByStructure ==
    pc = "copy" =>
        /\ playoff_rounds(league) # <<>> =>
            TopFourFollowStructure(playoff_rounds(league), playoff_places_rel)
        /\ consolation_rounds(league) # <<>> =>
            TopFourFollowStructure(consolation_rounds(league),
                                   consolation_places_rel)

\* the persisted standings rank of team t, 999 when no rank is stored
StoredRankOrLast(lg, t) ==
    IF t \in DOMAIN lg.standings_rows /\ ~IsNone(lg.standings_rows[t].rank)
       /\ lg.standings_rows[t].rank # Some(0)
    THEN lg.standings_rows[t].rank[1]
    ELSE RankSentinel

\* the teams of the final round of a bracket
FinalRoundTeams(rounds) == UNION {MatchupTeamKeys(e) : e \in FinalEntries(rounds)}

\* teams outside the final round rank below every final-round team and
\* among themselves in the order of their stored ranks
EarlierTeamsRankBelow(lg, rounds, placements) ==
    LET in_final == FinalRoundTeams(rounds)
        earlier == BracketTeams(rounds) \ in_final
    IN  /\ \A e \in earlier, f \in in_final : placements[e] > placements[f]
        /\ \A e1, e2 \in earlier :
                StoredRankOrLast(lg, e1) < StoredRankOrLast(lg, e2)
                    => placements[e1] < placements[e2]

\* C22: in the placements of each bracket, every team that is in no
\* final-round matchup has a greater rank than every team of the final
\* round, and among those teams a smaller stored standings rank (999 when
\* none is stored) gives a smaller rank.
C22_EarlierTeamsBelowFinalists ==
    pc = "copy" =>
        /\ playoff_rounds(league) # <<>> =>
            EarlierTeamsRankBelow(league, playoff_rounds(league),
                                  playoff_places_rel)
        /\ consolation_rounds(league) # <<>> =>
            EarlierTeamsRankBelow(league, consolation_rounds(league),
                                  consolation_places_rel)

\* C22 witness: the semifinal losers B and D, met in the order D, B, are
\* placed third and fourth by stored rank behind the finalists A and C.
C22_Witness ==
    /\ pc = "copy"
    /\ hash_order = <<"E", "D", "C", "B", "A">>
    /\ playoff_rounds(league) # <<>>
    /\ FinalRoundTeams(playoff_rounds(league)) = {"A", "C"}
    /\ StoredRankOrLast(league, "B") < StoredRankOrLast(league, "D")
    /\ playoff_places_rel = ("A" :> 1 @@ "C" :> 2 @@ "B" :> 3 @@ "D" :> 4)

\* C23: after the merge, a team with relative consolation placement p has
\* final place max(playoff placements) + p; the best consolation team has
\* max(playoff placements) + 1; consolation teams keep their relative order
\* and rank after every team placed by the playoff bracket alone.
C23_ConsolationOffset ==
    pc = "remaining" =>
        LET top == MaxValue(playoff_places_rel)
            cons == consolation_places_rel
        IN  /\ \A t \in DOMAIN cons : final_places[t] = top + cons[t]
            /\ DOMAIN cons # {} =>
                    \E t \in DOMAIN cons : final_places[t] = top + 1
            /\ \A t1, t2 \in DOMAIN cons :
                    cons[t1] < cons[t2] => final_places[t1] < final_places[t2]
            /\ \A t \in DOMAIN cons :
                    \A u \in DOMAIN playoff_places_rel \ DOMAIN cons :
                        final_places[t] > final_places[u]

----------------------------------------------------------------------------
(* Claims about the upset rate, under SpecSeason *)

\* the matchups of week w that the record loop reads
CountedIn(lg, w) == {m \in weekly_matchups(lg) : m.week = w}

\* the record of team t over the results of the weeks strictly before w
PriorRecord(lg, t, w) ==
    LET before == {m \in weekly_matchups(lg) : m.week < w}
    IN  [wins |-> Cardinality({m \in before :
                    /\ _matchup_result(m.teams).kind = "decided"
                    /\ _matchup_result(m.teams).winner = t}),
         losses |-> Cardinality({m \in before :
                    /\ _matchup_result(m.teams).kind = "decided"
                    /\ _matchup_result(m.teams).loser = t}),
         ties |-> Cardinality({m \in before :
                    /\ _matchup_result(m.teams).kind = "tie"
                    /\ \E i \in 1 .. Len(m.teams) : m.teams[i].team_key = t})]

\* the decisive matchups of week w whose winner had the strictly lower win
\* percentage before week w
PriorUpsets(lg, w) ==
    {m \in CountedIn(lg, w) :
        LET r == _matchup_result(m.teams)
        IN  /\ r.kind = "decided"
            /\ PctLess(_win_pct(PriorRecord(lg, r.winner, w)),
                       _win_pct(PriorRecord(lg, r.loser, w)))}

\* C24: the record loop visits the weeks in ascending order, and the step of
\* week w adds to the upset counter exactly the decisive matchups of week w
\* whose winner had a strictly lower win percentage than the loser over the
\* results of the weeks before w.
C24_UpsetsUsePriorWeeks ==
    [][(pc = "weeks" /\ cursor' = cursor + 1)
        => LET w == RecordWeeks(league)[cursor]
           IN  /\ cursor > 1 => RecordWeeks(league)[cursor - 1] < w
               /\ upset_games' - upset_games
                    = Cardinality(PriorUpsets(league, w))]_vars

\* C24 witness: B, who lost to A in the first week, beats A in the second
\* week and the loop has counted one upset in two games.
C24_Witness ==
    /\ pc = "built"
    /\ upset_games = 1
    /\ total_games = 2
    /\ record_map["A"].wins = 1
    /\ record_map["B"].wins = 1

\* C25: the step of a week adds one game for every decisive matchup of the
\* week, whatever the two win percentages, and no upset for a matchup whose
\* two prior win percentages are equal; a tied matchup adds no game and one
\* tie to the running records of both teams, an unresolved matchup adds
\* nothing; the upset counter never exceeds the games counter.
C25_GamesCountDecisive ==
    [][(pc = "weeks" /\ cursor' = cursor + 1)
        => LET w == RecordWeeks(league)[cursor]
               decided == {m \in CountedIn(league, w) :
                            _matchup_result(m.teams).kind = "decided"}
               tied == {m \in CountedIn(league, w) :
                            _matchup_result(m.teams).kind = "tie"}
               unequal == {m \in decided :
                    LET r == _matchup_result(m.teams)
                        pw == _win_pct(PriorRecord(league, r.winner, w))
                        pl == _win_pct(PriorRecord(league, r.loser, w))
                    IN  PctLess(pw, pl) \/ PctLess(pl, pw)}
           IN  /\ total_games' - total_games = Cardinality(decided)
               /\ upset_games' - upset_games <= Cardinality(unequal)
               /\ upset_games' <= total_games'
               /\ \A t \in DOMAIN record_map :
                    record_map'[t].ties - record_map[t].ties =
                        Cardinality({m \in tied :
                            \E i \in 1 .. Len(m.teams) : m.teams[i].team_key = t})
               /\ (decided = {} /\ tied = {}) => record_map' = record_map]_vars

\* C25 witness: a week with a tied game and a decisive game between two
\* teams of equal win percentage is counted as one game and no upset, with
\* one tie for A and for B.
C25_Witness ==
    /\ pc = "built"
    /\ total_games = 1
    /\ upset_games = 0
    /\ record_map["A"].ties = 1
    /\ record_map["B"].ties = 1
    /\ record_map["C"].wins = 1

----------------------------------------------------------------------------
(* Claims about the median gap, the weeks in a playoff spot and the playoff
   bubble, under SpecSeason *)

\* median wins - actual wins of team t
GapOf(lg, wins_by_median, t) == Get(wins_by_median, t, 0) - actual_wins(lg, t)

\* the teams whose gap is the largest of the league
LargestGapTeams(lg, wins_by_median) ==
    {t \in team_keys(lg) :
        \A u \in team_keys(lg) :
            GapOf(lg, wins_by_median, u) <= GapOf(lg, wins_by_median, t)}

\* position of team t in an iteration order
Position(order, t) == CHOOSE i \in 1 .. Len(order) : order[i] = t

\* C26: once the gap loop has run, the reported biggest gap is the maximum
\* over the team keys of median wins minus the stored standings wins (0 for a
\* team without a standings row), and the reported team is the team that
\* attains the maximum and comes first in the iteration order.
C26_BiggestGapIsFirstMaximum ==
    pc \in {"weeks", "built"}
        => /\ gap_team_key \in LargestGapTeams(league, median_wins)
           /\ gap_value = Some(GapOf(league, median_wins, gap_team_key))
           /\ \A t \in LargestGapTeams(league, median_wins) :
                Position(hash_order, gap_team_key) <= Position(hash_order, t)

\* C26 witness: two teams share the largest gap, which is one median win
\* above the stored wins, and teams with a standings row and a smaller gap
\* exist.
C26_Witness ==
    /\ pc = "built"
    /\ gap_value = Some(1)
    /\ Cardinality(LargestGapTeams(league, median_wins)) = 2
    /\ DOMAIN league.standings_rows = team_keys(league)

\* the playoff-spot count: the teams seen in playoff non-consolation
\* matchups, or the larger of 4 and half the team count
SpotCount(lg) ==
    LET seen == UNION {MatchupTeamKeys(m) :
                        m \in {x \in lg.matchup_map :
                                x.meta.is_playoffs # 0
                                /\ x.meta.is_consolation = 0}}
        half == Cardinality(team_keys(lg)) \div 2
    IN  IF seen # {} THEN Cardinality(seen)
        ELSE IF half >= 4 THEN half ELSE 4

\* team u stands strictly above team t after week w: higher win percentage
\* over the weeks up to w, or the same percentage and more points to date
StandsAbove(lg, to_date, u, t, w) ==
    LET pu == _win_pct(PriorRecord(lg, u, w + 1))
        pt == _win_pct(PriorRecord(lg, t, w + 1))
    IN  \/ PctLess(pt, pu)
        \/ /\ ~PctLess(pu, pt)
           /\ Get(to_date, u, 0) > Get(to_date, t, 0)

\* C27: the step of a week credits one week in a playoff spot to exactly
\* min(N, team count) teams, N being the playoff-spot count, no team outside
\* the credited ones stands strictly above a credited one in the standings
\* after that week, nobody else's count changes, and no count exceeds the
\* number of weeks visited.
C27_TopNCreditedEachWeek ==
    [][(pc = "weeks" /\ cursor' = cursor + 1)
        => LET w == RecordWeeks(league)[cursor]
               keys == team_keys(league)
               credited == {t \in keys :
                    Get(playoff_weeks_in_spot', t, 0)
                        = Get(playoff_weeks_in_spot, t, 0) + 1}
               n == SpotCount(league)
           IN  /\ DOMAIN playoff_weeks_in_spot' \subseteq keys
               /\ \A t \in keys \ credited :
                    Get(playoff_weeks_in_spot', t, 0)
                        = Get(playoff_weeks_in_spot, t, 0)
               /\ Cardinality(credited)
                    = IF n < Cardinality(keys) THEN n ELSE Cardinality(keys)
               /\ \A t \in credited : \A u \in keys \ credited :
                    ~StandsAbove(league, points_to_date', u, t, w)
               /\ \A t \in keys : Get(playoff_weeks_in_spot', t, 0) <= cursor]_vars

\* C27 witness: a league of ten teams without playoff matchups has five
\* playoff spots and five teams credited after its one week.
C27_Witness ==
    /\ pc = "built"
    /\ Cardinality(team_keys(league)) = 10
    /\ playoff_team_keys(league) = {}
    /\ playoff_bubble.playoff_teams = 5
    /\ Cardinality(DOMAIN playoff_weeks_in_spot) = 5
    /\ \A t \in DOMAIN playoff_weeks_in_spot : playoff_weeks_in_spot[t] = 1

\* the stored rank of a standings row, <<>> when it has none
StoredRank(lg, t) == lg.standings_rows[t].rank

\* the sets of standings rows that can be the playoff teams of the bubble:
\* the rows of the teams seen in playoff matchups or, when none was seen,
\* the first N rows by stored rank, rows without a rank last
BubblePlayoffSets(lg) ==
    LET rows == DOMAIN lg.standings_rows
        n == SpotCount(lg)
    IN  IF playoff_team_keys(lg) # {}
        THEN {playoff_team_keys(lg) \cap rows}
        ELSE {P \in SUBSET rows :
                /\ Cardinality(P)
                    = IF n < Cardinality(rows) THEN n ELSE Cardinality(rows)
                /\ \A t \in P : \A u \in rows \ P :
                    RankOr(lg, t, RankSentinel) <= RankOr(lg, u, RankSentinel)}

\* the bubble b is the one the playoff teams P give: the last seed has the
\* largest stored rank of P, the first team out the smallest stored rank of
\* the other rows, and the gap is the difference of their points_for, None
\* exactly when one of the two is absent
BubbleOf(lg, b, P) ==
    LET out == DOMAIN lg.standings_rows \ P
    IN  /\ b.last_seed = NULL <=> P = {}
        /\ b.first_out = NULL <=> out = {}
        /\ b.last_seed # NULL =>
            /\ b.last_seed \in P
            /\ \A t \in P : ~IsNone(StoredRank(lg, t)) =>
                /\ ~IsNone(StoredRank(lg, b.last_seed))
                /\ StoredRank(lg, t)[1] <= StoredRank(lg, b.last_seed)[1]
        /\ b.first_out # NULL =>
            /\ b.first_out \in out
            /\ \A t \in out : ~IsNone(StoredRank(lg, t)) =>
                /\ ~IsNone(StoredRank(lg, b.first_out))
                /\ StoredRank(lg, b.first_out)[1] <= StoredRank(lg, t)[1]
        /\ IsNone(b.points_gap) <=> (b.last_seed = NULL \/ b.first_out = NULL)
        /\ ~IsNone(b.points_gap) =>
            b.points_gap =
                Some(lg.standings_rows[b.last_seed].points_for.v
                     - lg.standings_rows[b.first_out].points_for.v)

\* C28: when the weekly loop has ended, the pass reports a playoff bubble
\* whose last seed is the playoff team with the largest stored rank, whose
\* first team out is the other team with the smallest stored rank, and whose
\* points-for gap is last seed minus first out, None exactly when one of the
\* two is absent.
C28_BubbleReported ==
    [][(pc = "weeks" /\ cursor > Len(RecordWeeks(league)))
        => /\ pc' = "built"
           /\ \E P \in BubblePlayoffSets(league) :
                BubbleOf(league, playoff_bubble', P)]_vars

----------------------------------------------------------------------------
(* Claims about sync_all.main and fetch_xml, under SpecSync *)

\* position of the league named key in a list of leagues
LeaguePosition(ls, key) == CHOOSE i \in 1 .. Len(ls) : ls[i].league_key = key

\* season of the league named key
SeasonOfKey(ls, key) == ls[LeaguePosition(ls, key)].season

\* the run in progress is a --resume run that found a last_league_key, with
\* no --only and no --start-at on the command line
ResumedRun ==
    /\ sync_pc \in {"loop", "sync_league", "save", "done", "failed"}
    /\ sorted_leagues # <<>>
    /\ args.resume
    /\ args.only = NULL
    /\ args.start_at = NULL
    /\ args.start_after # NULL

C30_ArchivedBeforeJudged ==
    [][/\ (fetch_pc = "call" /\ fetch_pc' # "call")
            => /\ fetch_pc' = "archived"
               /\ \A f \in raw_files : f.counter < counter
               /\ raw_files' = raw_files \cup {FileOf(counter, runs)}
               /\ raw_responses' =
                    Append(raw_responses,
                           RawRecord(response', FileOf(counter, runs)))
               /\ counter' = counter + 1
       /\ (fetch_pc = "archived" /\ fetch_pc' # "archived")
            => /\ raw_responses # <<>>
               /\ raw_responses[Len(raw_responses)].http_status = response
               /\ raw_responses[Len(raw_responses)].file_path \in raw_files
               /\ raw_responses' = raw_responses
               /\ raw_files' = raw_files
               /\ fetch_result' =
                    IF response \notin allowed(CurrentCall.allow_statuses)
                    THEN "RuntimeError"
                    ELSE IF response # 200 THEN "None" ELSE "body"
               /\ fetch_result' = "RuntimeError" <=> sync_pc' = "failed"]_vars

\* C30 witness: a 404 response to a call that allows 404 is archived as the
\* fifth row of the context and fetch_xml has returned None.
C30_Witness ==
    /\ fetch_pc = "returned"
    /\ fetch_result = "None"
    /\ response = 404
    /\ Len(raw_responses) = 5
    /\ raw_responses[5].http_status = 404
    /\ raw_responses[5].file_path = FileOf(5, runs)
    /\ counter = 6

====
